---- MODULE Spec2Model ----
(***************************************************************************)
(* Model of the request-admission and session-state layer of the WhatsApp  *)
(* commerce bot in src/main.py: the TTL cache, the dedup tracker, the      *)
(* fixed-window rate limiter, the record caches, the order ledger and the  *)
(* webhook router that drives them.                                        *)
(*                                                                         *)
(* Scheduling.  The webhook is an asyncio coroutine and the Supabase       *)
(* client is the synchronous one (create_client, .execute()), so a         *)
(* coroutine gives up the event loop only at `await client.post(...)` in   *)
(* WhatsAppAPI.send, at `await asyncio.sleep(1)` and at                    *)
(* `await request.body()`.  Each action below is one such run-to-suspend   *)
(* segment.  Tasks started with asyncio.create_task are queued in bgq and  *)
(* run, in creation order, when the creating segment suspends: before any  *)
(* request that arrives later.  A continuation of another call that was    *)
(* already ready may in fact run before them; it writes only orders and    *)
(* the pending_order / order_history cache keys, which no task reads or    *)
(* writes, so the two orders give the same states and the model runs the   *)
(* tasks first.  Time is in whole seconds.                                 *)
(***************************************************************************)
EXTENDS Integers, Sequences, FiniteSets, TLC

\* ---------------------------------------------------------------- bounds
\* webhook calls, clock advances and injected collaborator failures of each
\* scenario
DedupDeliveries == 3
DedupTicks == 2
DedupFaults == 1
AdmitDeliveries == 3
AdmitTicks == 1
AdmitFaults == 1
RateChecks == 4
HistoryDeliveries == 4
HistoryTicks == 1
CacheCalls == 4
CacheTicks == 2
CatalogueLines == 2
CatalogueDeliveries == 1
RateTicks == 3
OrderDeliveries == 4
OrderTicks == 1
RouterDeliveries == 2
RouterFaults == 1
BackgroundDeliveries == 2
BackgroundTicks == 1
BackgroundFaults == 2
SweepChecks == 3
IdentityDeliveries == 3
IdentityTicks == 2
RedeliverDeliveries == 3
RedeliverTicks == 1
RedeliverFaults == 1
SweepTicks == 3

\* ------------------------------------------------------ program constants
PROCESSED_TTL == 3600
PENDING_ORDER_TTL == 1800
USER_TTL == 600
BLOCKED_TTL == 300
ORDER_HISTORY_TTL == 60
MENU_TTL == 600
MINUTE == 60
CLEANUP_INTERVAL == 3600
CLEANUP_HORIZON == 3600
DAY == 86400

Senders == {"s1", "s2"}

VARIABLES
    now,            \* wall clock, seconds
    ticks,          \* number of clock advances so far
    config,         \* Config: RATE_LIMIT_REQUESTS, RATE_LIMIT_WINDOW_SECONDS,
                    \* ENABLE_MESSAGE_LOGGING
    env,            \* the scenario: deliverable payloads and its bounds
    cache,          \* Cache._cache: key -> [value, expires_at]
    rate_limits,    \* RateLimiter._rate_limits: wa_id -> [count, window]
    last_cleanup,   \* RateLimiter._last_cleanup
    processed_messages, \* durable table processed_messages (message ids)
    users,          \* durable table users: wa_id -> [rows, is_blocked, last_active_at]
    orders,         \* durable table orders: sequence of rows, id = index
    rate_limits_db, \* durable table rate_limits: set of upserted rows
    bgq,            \* tasks started with asyncio.create_task, oldest first
    procs,          \* in-flight webhook calls
    response,       \* the webhook call that returned last, and what it did
    deliveries,     \* number of webhook calls so far
    handled,        \* message id -> number of handler dispatches
    markedIds,      \* ids for which mark_processed has returned
    windowAllowed,  \* wa_id -> [window, n]: allowed checks counted per minute window
    faults,         \* collaborator failures injected so far
    lastCheck,      \* the last direct check_rate_limit call and its answer
    allowedW,       \* wa_id -> allowed checks in the window of the configured size
    paid,           \* order id -> the payment flows dispatched on it, in order
    cacheOp,        \* the last direct Cache call and its answer
    written,        \* key -> the last set of the key not yet deleted or cleared
    message_logs    \* durable table message_logs: set of inserted rows

vars == <<now, ticks, config, env, cache, rate_limits, last_cleanup,
          processed_messages, users, orders, rate_limits_db, bgq, procs, response,
          deliveries, handled, markedIds, windowAllowed, faults,
          lastCheck, allowedW, paid, cacheOp, written, message_logs>>

\* ------------------------------------------------------------- TTL cache
\* a get that still serves the entry at its expiry time
CacheLiveAtExpiry(c, k, t) == k \in DOMAIN c /\ t <= c[k].expires_at

\* Cache.get: the entry is live iff now < expires_at
CacheLive(c, k, t) == k \in DOMAIN c /\ t < c[k].expires_at

\* Cache.get's effect on the store: an expired entry is deleted on read
CacheAfterGet(c, k, t) ==
    IF k \in DOMAIN c /\ ~(t < c[k].expires_at)
    THEN [x \in DOMAIN c \ {k} |-> c[x]]
    ELSE c

\* Cache.set: expires_at = now + ttl_seconds
CacheSet(c, k, v, ttl, t) ==
    [x \in DOMAIN c \cup {k} |->
        IF x = k THEN [value |-> v, expires_at |-> t + ttl] ELSE c[x]]

\* a delete that drops every entry of the key's namespace
CacheDeleteNamespace(c, k) == [x \in {y \in DOMAIN c : y[1] # k[1]} |-> c[x]]

\* Cache.delete
CacheDelete(c, k) == [x \in DOMAIN c \ {k} |-> c[x]]

\* Cache.clear
CacheClear(c) == [x \in {} |-> [value |-> TRUE, expires_at |-> 0]]


\* cache key namespaces (the f"...:{id}" strings of the source)
ProcessedKey(m) == <<"processed", m>>
BlockedKey(s) == <<"blocked", s>>
UserKey(s) == <<"user", s>>
PendingKey(s) == <<"pending_order", s>>
HistoryKey(s) == <<"order_history", s>>

\* --------------------------------------------------------- dedup tracker
\* Database.already_processed: cache first, then the durable log, a durable
\* hit is back-filled into the cache.  Returns [ret, cache].
AlreadyProcessed(c, pm, m, t) ==
    IF CacheLive(c, ProcessedKey(m), t)
    THEN [ret |-> TRUE, cache |-> c]
    ELSE LET c1 == CacheAfterGet(c, ProcessedKey(m), t) IN
         IF m \in pm
         THEN [ret |-> TRUE, cache |-> CacheSet(c1, ProcessedKey(m), TRUE, PROCESSED_TTL, t)]
         ELSE [ret |-> FALSE, cache |-> c1]

\* mark_processed that leaves the cache alone and relies on the durable insert
MarkProcessedDurableOnly(c, m, t) == c

\* Database.mark_processed: the cache write (the durable insert is the task
\* InsertProcessedTask queued by the caller's action)
MarkProcessed(c, m, t) == CacheSet(c, ProcessedKey(m), TRUE, PROCESSED_TTL, t)

InsertProcessedTask(m, s) == [task |-> "insert_processed", id |-> m, wa_id |-> s, at |-> 0, n |-> 0]
UpdateActivityTask(s) == [task |-> "update_activity", id |-> "-", wa_id |-> s, at |-> 0, n |-> 0]
SyncToDbTask(s, w, n) == [task |-> "sync_to_db", id |-> "-", wa_id |-> s, at |-> w, n |-> n]
\* Database._insert_message_log, started by Database.log_message
LogMessageTask(s, direction, status) ==
    [task |-> "insert_message_log", id |-> "-", wa_id |-> s, at |-> 0, n |-> 0,
     direction |-> direction, status |-> status]

\* ------------------------------------------------------- blocked / users
\* Database.is_user_blocked: cached flag (`is not None`), else the users row
IsUserBlocked(c, u, s, t) ==
    IF CacheLive(c, BlockedKey(s), t)
    THEN [ret |-> c[BlockedKey(s)].value, cache |-> c]
    ELSE LET c1 == CacheAfterGet(c, BlockedKey(s), t)
             b == u[s].rows > 0 /\ u[s].is_blocked
         IN [ret |-> b, cache |-> CacheSet(c1, BlockedKey(s), b, BLOCKED_TTL, t)]

\* get_or_create_user that inserts on every cache miss, without the select
GetOrCreateUserNoSelect(c, u, s, t) ==
    IF CacheLive(c, UserKey(s), t)
    THEN [cache |-> c, users |-> u, touch |-> TRUE]
    ELSE [cache |-> CacheSet(CacheAfterGet(c, UserKey(s), t), UserKey(s), s, USER_TTL, t),
          users |-> [u EXCEPT ![s] = [rows |-> u[s].rows + 1, is_blocked |-> FALSE,
                                       last_active_at |-> t]],
          touch |-> FALSE]

\* Database.get_or_create_user: [cache, users, touch] where touch says that
\* _update_user_activity was started as a task
GetOrCreateUser(c, u, s, t) ==
    IF CacheLive(c, UserKey(s), t)
    THEN [cache |-> c, users |-> u, touch |-> TRUE]
    ELSE LET c1 == CacheAfterGet(c, UserKey(s), t) IN
         IF u[s].rows > 0
         THEN [cache |-> CacheSet(c1, UserKey(s), s, USER_TTL, t), users |-> u, touch |-> TRUE]
         ELSE [cache |-> CacheSet(c1, UserKey(s), s, USER_TTL, t),
               users |-> [u EXCEPT ![s] = [rows |-> u[s].rows + 1, is_blocked |-> FALSE,
                                            last_active_at |-> t]],
               touch |-> FALSE]

\* ---------------------------------------------------------- rate limiter
\* now.replace(second=0, microsecond=0).timestamp()
\* a window that starts at the arrival of its first request
WindowStartAtArrival(t) == t

WindowStart(t) == t - (t % MINUTE)

\* a sweep that empties the table
CleanupDropsAll(rl, lc, t) ==
    IF ((t - lc) % DAY) > CLEANUP_INTERVAL
    THEN [rate_limits |-> [s \in {} |-> rl[s]], last_cleanup |-> t]
    ELSE [rate_limits |-> rl, last_cleanup |-> lc]

\* RateLimiter._cleanup_old_entries: timedelta.seconds is the seconds field of
\* the difference (days are a separate field), so the test is on the
\* difference modulo one day.  Returns [rate_limits, last_cleanup].
CleanupOldEntries(rl, lc, t) ==
    IF ((t - lc) % DAY) > CLEANUP_INTERVAL
    THEN [rate_limits |-> [s \in {x \in DOMAIN rl : rl[x].window >= WindowStart(t) - CLEANUP_HORIZON}
                              |-> rl[s]],
          last_cleanup |-> t]
    ELSE [rate_limits |-> rl, last_cleanup |-> lc]

\* check_rate_limit that counts a denied request as well
CheckWindowCountsDenied(rl, s, t, n) ==
    LET w == WindowStart(t) IN
    IF s \in DOMAIN rl
    THEN IF rl[s].window < w
         THEN [allowed |-> TRUE, remaining |-> n - 1,
               rate_limits |-> [rl EXCEPT ![s] = [count |-> 1, window |-> w]],
               sync |-> FALSE]
         ELSE IF rl[s].count >= n
         THEN [allowed |-> FALSE, remaining |-> 0,
               rate_limits |-> [rl EXCEPT ![s] = [count |-> rl[s].count + 1, window |-> w]],
               sync |-> FALSE]
         ELSE [allowed |-> TRUE, remaining |-> n - rl[s].count - 1,
               rate_limits |-> [rl EXCEPT ![s] = [count |-> rl[s].count + 1, window |-> w]],
               sync |-> FALSE]
    ELSE [allowed |-> TRUE, remaining |-> n - 1,
          rate_limits |-> [x \in DOMAIN rl \cup {s} |->
                              IF x = s THEN [count |-> 1, window |-> w] ELSE rl[x]],
          sync |-> TRUE]

\* check_rate_limit whose increment writes back a count read before another
\* check of the sender updated it
CheckWindowLostUpdate(rl, s, t, n) ==
    LET w == WindowStart(t) IN
    IF s \in DOMAIN rl
    THEN IF rl[s].window < w
         THEN [allowed |-> TRUE, remaining |-> n - 1,
               rate_limits |-> [rl EXCEPT ![s] = [count |-> 1, window |-> w]],
               sync |-> FALSE]
         ELSE IF rl[s].count >= n
         THEN [allowed |-> FALSE, remaining |-> 0, rate_limits |-> rl, sync |-> FALSE]
         ELSE [allowed |-> TRUE, remaining |-> n - rl[s].count - 1,
               rate_limits |-> [rl EXCEPT ![s] = [count |-> rl[s].count, window |-> w]],
               sync |-> FALSE]
    ELSE [allowed |-> TRUE, remaining |-> n - 1,
          rate_limits |-> [x \in DOMAIN rl \cup {s} |->
                              IF x = s THEN [count |-> 1, window |-> w] ELSE rl[x]],
          sync |-> TRUE]

\* RateLimiter.check_rate_limit after the sweep, limit n.
\* Returns [allowed, remaining, rate_limits, sync]; sync says that
\* _sync_to_db was started as a task.
CheckWindow(rl, s, t, n) ==
    LET w == WindowStart(t) IN
    IF s \in DOMAIN rl
    THEN IF rl[s].window < w
         THEN [allowed |-> TRUE, remaining |-> n - 1,
               rate_limits |-> [rl EXCEPT ![s] = [count |-> 1, window |-> w]],
               sync |-> FALSE]
         ELSE IF rl[s].count >= n
         THEN [allowed |-> FALSE, remaining |-> 0, rate_limits |-> rl, sync |-> FALSE]
         ELSE [allowed |-> TRUE, remaining |-> n - rl[s].count - 1,
               rate_limits |-> [rl EXCEPT ![s] = [count |-> rl[s].count + 1, window |-> w]],
               sync |-> FALSE]
    ELSE [allowed |-> TRUE, remaining |-> n - 1,
          rate_limits |-> [x \in DOMAIN rl \cup {s} |->
                              IF x = s THEN [count |-> 1, window |-> w] ELSE rl[x]],
          sync |-> TRUE]

\* RateLimiter.check_rate_limit: sweep, then the window test.
\* Returns [allowed, remaining, rate_limits, last_cleanup, sync].
CheckRateLimit(rl, lc, s, t, n) ==
    LET swept == CleanupOldEntries(rl, lc, t)
        r == CheckWindow(swept.rate_limits, s, t, n)
    IN [allowed |-> r.allowed, remaining |-> r.remaining,
        rate_limits |-> r.rate_limits, last_cleanup |-> swept.last_cleanup,
        sync |-> r.sync]

\* ---------------------------------------------------------- order ledger
NoTime == -1

RECURSIVE SumTotals(_)
SumTotals(lines) ==
    IF lines = <<>> THEN 0 ELSE Head(lines).item_total + SumTotals(Tail(lines))

\* the loop of create_order_from_catalogue with the quantity left out of
\* the line total
ProcessItemsUnitPrice(items) ==
    [i \in 1..Len(items) |->
        [product_retailer_id |-> items[i].product_retailer_id,
         quantity |-> items[i].quantity,
         item_price |-> items[i].item_price,
         item_total |-> items[i].item_price]]

\* the loop of create_order_from_catalogue over product_items:
\* item_total = item_price * quantity
ProcessItems(items) ==
    [i \in 1..Len(items) |->
        [product_retailer_id |-> items[i].product_retailer_id,
         quantity |-> items[i].quantity,
         item_price |-> items[i].item_price,
         item_total |-> items[i].item_price * items[i].quantity]]

\* tax_rate = 0.0; tax_amount = int(subtotal * tax_rate)
TaxAmount(subtotal) == 0

\* create_order_from_catalogue whose subtotal adds unit prices, not line totals
CatalogueOrderRowPriceSum(id, s, items, t) ==
    [id |-> id, wa_id |-> s, item_id |-> "CAT_ORDER",
     items |-> ProcessItems(items), item_price |-> 0,
     subtotal |-> SumTotals([i \in 1..Len(items) |-> [item_total |-> items[i].item_price]]),
     tax_amount |-> 0,
     total_amount |-> SumTotals([i \in 1..Len(items) |-> [item_total |-> items[i].item_price]]),
     quantity |-> IF Len(items) > 0 THEN Len(items) ELSE 1,
     status |-> "pending_payment", order_source |-> "meta_catalogue",
     payment_method |-> "None", payment_status |-> "None",
     payment_confirmed_at |-> NoTime, created_at |-> t]

\* the row create_order_from_catalogue inserts (id given by the store)
CatalogueOrderRow(id, s, items, t) ==
    LET processed_items == ProcessItems(items)
        subtotal == SumTotals(processed_items)
        tax_amount == TaxAmount(subtotal)
    IN [id |-> id, wa_id |-> s, item_id |-> "CAT_ORDER",
        items |-> processed_items, item_price |-> 0,
        subtotal |-> subtotal, tax_amount |-> tax_amount,
        total_amount |-> subtotal + tax_amount,
        quantity |-> IF Len(items) > 0 THEN Len(items) ELSE 1,
        status |-> "pending_payment", order_source |-> "meta_catalogue",
        payment_method |-> "None", payment_status |-> "None",
        payment_confirmed_at |-> NoTime, created_at |-> t]

\* the row create_order inserts: subtotal = item_price or 0, tax 0, quantity 1
LegacyOrderRow(id, s, item_id, item_price, t) ==
    [id |-> id, wa_id |-> s, item_id |-> item_id,
     items |-> <<>>, item_price |-> item_price,
     subtotal |-> item_price, tax_amount |-> 0,
     total_amount |-> item_price + 0,
     quantity |-> 1,
     status |-> "pending_payment", order_source |-> "bot_menu",
     payment_method |-> "None", payment_status |-> "None",
     payment_confirmed_at |-> NoTime, created_at |-> t]

\* `None` where the code holds an order or nothing
NoOrder == LegacyOrderRow(0, "-", "-", 0, NoTime)

\* an insert that cancels the sender's earlier pending orders
InsertOrderSupersedes(c, o, row, t) ==
    [orders |-> Append([i \in 1..Len(o) |->
                           IF o[i].wa_id = row.wa_id /\ o[i].status = "pending_payment"
                           THEN [o[i] EXCEPT !.status = "cancelled"] ELSE o[i]],
                       row),
     cache |-> CacheSet(CacheDelete(c, HistoryKey(row.wa_id)),
                        PendingKey(row.wa_id), row, PENDING_ORDER_TTL, t),
     order |-> row]

\* insert into orders, then cache.delete(order_history), cache.set(pending_order)
InsertOrder(c, o, row, t) ==
    [orders |-> Append(o, row),
     cache |-> CacheSet(CacheDelete(c, HistoryKey(row.wa_id)),
                        PendingKey(row.wa_id), row, PENDING_ORDER_TTL, t),
     order |-> row]

\* the query of get_pending_order without .eq("status", "pending_payment")
PendingRowsAnyStatus(o, s) == {i \in 1..Len(o) : o[i].wa_id = s}

\* Database.get_pending_order, store part: newest row of the sender in
\* status pending_payment (rows are appended in creation order)
PendingRows(o, s) ==
    {i \in 1..Len(o) : o[i].wa_id = s /\ o[i].status = "pending_payment"}

\* order("created_at") without desc=True: the oldest row
Oldest(ids) == CHOOSE i \in ids : \A j \in ids : i <= j

Newest(ids) == CHOOSE i \in ids : \A j \in ids : j <= i

\* Database.get_pending_order: [order, cache]
GetPendingOrder(c, o, s, t) ==
    IF CacheLive(c, PendingKey(s), t)
    THEN [order |-> c[PendingKey(s)].value, cache |-> c]
    ELSE LET c1 == CacheAfterGet(c, PendingKey(s), t) IN
         IF PendingRows(o, s) # {}
         THEN LET row == o[Newest(PendingRows(o, s))] IN
              [order |-> row, cache |-> CacheSet(c1, PendingKey(s), row, PENDING_ORDER_TTL, t)]
         ELSE [order |-> NoOrder, cache |-> c1]

\* update_order_payment that sets status 'placed' whatever the payment status
PaymentUpdateAlwaysPlaces(row, payment_method, payment_status, t) ==
    [row EXCEPT !.payment_method = payment_method,
                !.payment_status = payment_status,
                !.status = "placed",
                !.payment_confirmed_at = IF payment_status = "confirmed" THEN t
                                         ELSE NoTime]

\* update_order_payment that stamps payment_confirmed_at on every update
PaymentUpdateAlwaysStamps(row, payment_method, payment_status, t) ==
    [row EXCEPT !.payment_method = payment_method,
                !.payment_status = payment_status,
                !.status = IF payment_status = "confirmed" THEN "placed"
                           ELSE "pending_payment",
                !.payment_confirmed_at = t]

\* the update_data of update_order_payment applied to one row
PaymentUpdate(row, payment_method, payment_status, t) ==
    [row EXCEPT !.payment_method = payment_method,
                !.payment_status = payment_status,
                !.status = IF payment_status = "confirmed" THEN "placed"
                           ELSE "pending_payment",
                !.payment_confirmed_at = IF payment_status = "confirmed" THEN t
                                         ELSE NoTime]

\* update_order_payment without cache.delete(order_history)
UpdateOrderPaymentKeepsHistory(c, o, order_id, payment_method, payment_status, t) ==
    IF order_id \in 1..Len(o)
    THEN [orders |-> [o EXCEPT ![order_id] =
                         PaymentUpdate(o[order_id], payment_method, payment_status, t)],
          cache |-> CacheDelete(c, PendingKey(o[order_id].wa_id))]
    ELSE [orders |-> o, cache |-> c]

\* update_order_payment without cache.delete(pending_order)
UpdateOrderPaymentKeepsPending(c, o, order_id, payment_method, payment_status, t) ==
    IF order_id \in 1..Len(o)
    THEN [orders |-> [o EXCEPT ![order_id] =
                         PaymentUpdate(o[order_id], payment_method, payment_status, t)],
          cache |-> CacheDelete(c, HistoryKey(o[order_id].wa_id))]
    ELSE [orders |-> o, cache |-> c]

\* Database.update_order_payment: [orders, cache]
UpdateOrderPayment(c, o, order_id, payment_method, payment_status, t) ==
    IF order_id \in 1..Len(o)
    THEN [orders |-> [o EXCEPT ![order_id] =
                         PaymentUpdate(o[order_id], payment_method, payment_status, t)],
          cache |-> CacheDelete(CacheDelete(c, PendingKey(o[order_id].wa_id)),
                                HistoryKey(o[order_id].wa_id))]
    ELSE [orders |-> o, cache |-> c]

\* Database.get_order_history: [orders, cache]; the listing is the sender's
\* rows, an empty cached listing is falsy and re-fetched
HistoryRows(o, s) == SelectSeq(o, LAMBDA r : r.wa_id = s)

GetOrderHistory(c, o, s, t) ==
    IF CacheLive(c, HistoryKey(s), t) /\ c[HistoryKey(s)].value # <<>>
    THEN [listing |-> c[HistoryKey(s)].value, cache |-> c]
    ELSE [listing |-> HistoryRows(o, s),
          cache |-> CacheSet(CacheAfterGet(c, HistoryKey(s), t), HistoryKey(s),
                             HistoryRows(o, s), ORDER_HISTORY_TTL, t)]

\* ----------------------------------------------------------------- router
\* the handlers table of the button branch of webhook; unknown ids -> home
ButtonAction(rid) ==
    CASE rid = "BTN_VIEW_STORE" -> "show_store"
      [] rid = "BTN_CHECKOUT" -> "show_checkout"
      [] rid = "BTN_HISTORY" -> "show_history"
      [] rid = "BTN_FAQ" -> "show_faq"
      [] rid = "BTN_ABOUT_US" -> "show_about_us"
      [] rid = "BTN_CONTACT" -> "show_contact"
      [] rid = "BTN_BACK_HOME" -> "show_home"
      [] rid = "BTN_PAY_BANK" -> "show_bank_transfer_details"
      [] rid = "BTN_PAY_CARD" -> "show_card_payment"
      [] rid = "BTN_CONFIRM_PAYMENT" -> "confirm_payment"
      [] rid = "BTN_MENU" -> "show_menu"
      [] rid = "BTN_ORDER" -> "show_order_list"
      [] rid = "BTN_MORE" -> "show_more"
      [] OTHER -> "show_home"

\* str.lower() on the ASCII letters; every other character is kept
UpperCase == <<"A", "B", "C", "D", "E", "F", "G", "H", "I", "J", "K", "L", "M", "N", "O", "P", "Q", "R", "S", "T", "U", "V", "W", "X", "Y", "Z">>
LowerCase == <<"a", "b", "c", "d", "e", "f", "g", "h", "i", "j", "k", "l", "m", "n", "o", "p", "q", "r", "s", "t", "u", "v", "w", "x", "y", "z">>
Lower(c) ==
    IF \E i \in DOMAIN UpperCase : UpperCase[i] = c
    THEN LowerCase[CHOOSE i \in DOMAIN UpperCase : UpperCase[i] = c]
    ELSE c

\* str.strip(): leading and trailing whitespace is dropped, inner is kept
Whitespace == {" ", "\t", "\n"}
RECURSIVE LStrip(_)
LStrip(text) ==
    IF text # <<>> /\ Head(text) \in Whitespace THEN LStrip(Tail(text)) ELSE text
RECURSIVE RStrip(_)
RStrip(text) ==
    IF text # <<>> /\ text[Len(text)] \in Whitespace
    THEN RStrip(SubSeq(text, 1, Len(text) - 1)) ELSE text
Strip(text) == RStrip(LStrip(text))

\* a body passed to the keyword table as it arrived
NormalizeNothing(text) == text

\* webhook line 1417: (msg.get("text") or "").strip().lower(), the body
\* being a sequence of characters
Normalize(text) == [i \in DOMAIN Strip(text) |-> Lower(Strip(text)[i])]

\* the text_handlers list of webhook: (keywords, handler) pairs in order
text_handlers ==
    <<
       [keywords |-> {<<"h", "i">>,
                      <<"h", "e", "l", "l", "o">>,
                      <<"s", "t", "a", "r", "t">>,
                      <<"h", "e", "y">>,
                      <<"h", "o", "l", "a">>,
                      <<"m", "e", "n", "u">>,
                      <<"h", "o", "m", "e">>},
        action |-> "show_home"],
       [keywords |-> {<<"s", "t", "o", "r", "e">>,
                      <<"s", "h", "o", "p">>,
                      <<"c", "a", "t", "a", "l", "o", "g", "u", "e">>,
                      <<"c", "a", "t", "a", "l", "o", "g">>},
        action |-> "show_store"],
       [keywords |-> {<<"c", "h", "e", "c", "k", "o", "u", "t">>,
                      <<"c", "a", "r", "t">>,
                      <<"p", "a", "y">>},
        action |-> "show_checkout"],
       [keywords |-> {<<"h", "i", "s", "t", "o", "r", "y">>,
                      <<"o", "r", "d", "e", "r", "s">>,
                      <<"m", "y", " ", "o", "r", "d", "e", "r", "s">>},
        action |-> "show_history"],
       [keywords |-> {<<"f", "a", "q">>,
                      <<"h", "e", "l", "p">>,
                      <<"i", "n", "f", "o">>},
        action |-> "show_faq"],
       [keywords |-> {<<"a", "b", "o", "u", "t">>,
                      <<"a", "b", "o", "u", "t", " ", "u", "s">>},
        action |-> "show_about_us"],
       [keywords |-> {<<"c", "o", "n", "t", "a", "c", "t">>,
                      <<"s", "u", "p", "p", "o", "r", "t">>},
        action |-> "show_contact"]
    >>

\* the for/else over text_handlers: the handler of the first pair whose
\* keywords hold the normalised text, show_home when there is none
TextAction(text) ==
    LET G == {g \in DOMAIN text_handlers : text \in text_handlers[g].keywords} IN
    IF G = {} THEN "show_home"
    ELSE text_handlers[CHOOSE g \in G : \A h \in G : g <= h].action

\* the fallback item_map of the list branch (prices in paisa)
ItemIds == {"ITEM_ZINGER", "ITEM_PIZZA", "ITEM_FRIES"}
ItemPrice(rid) ==
    CASE rid = "ITEM_ZINGER" -> 45000
      [] rid = "ITEM_PIZZA" -> 35000
      [] rid = "ITEM_FRIES" -> 20000

\* the keys of the handlers table of the button branch
ButtonIds ==
    {"BTN_VIEW_STORE", "BTN_CHECKOUT", "BTN_HISTORY", "BTN_FAQ", "BTN_ABOUT_US",
     "BTN_CONTACT", "BTN_BACK_HOME", "BTN_PAY_BANK", "BTN_PAY_CARD",
     "BTN_CONFIRM_PAYMENT", "BTN_MENU", "BTN_ORDER", "BTN_MORE"}

\* a list branch that sends an unknown item id to the home screen
MessageActionListHome(pl) ==
    CASE pl.kind = "order" -> "create_order_from_catalogue"
      [] pl.kind = "text" -> TextAction(Normalize(pl.text))
      [] pl.kind = "button" -> ButtonAction(pl.arg)
      [] pl.kind = "list" -> IF pl.arg \in ItemIds THEN "create_order" ELSE "show_home"
      [] OTHER -> "unsupported"

\* which branch of webhook a message kind takes
MessageAction(pl) ==
    CASE pl.kind = "order" -> "create_order_from_catalogue"
      [] pl.kind = "text" -> TextAction(Normalize(pl.text))
      [] pl.kind = "button" -> ButtonAction(pl.arg)
      [] pl.kind = "list" -> IF pl.arg \in ItemIds THEN "create_order" ELSE "show_order_list"
      [] OTHER -> "unsupported"

\* extract_message: the id of the event.  A payload with no messages but an
\* orders array gets f"order_{catalog_id}_{datetime.now().timestamp()}"
ExtractId(pl, t) ==
    IF pl.via = "orders" THEN <<"order", pl.id, t>> ELSE <<"wamid", pl.id, 0>>

\* --------------------------------------------------------------- webhook
\* The mutable program state a run-to-suspend segment works on.
World ==
    [cache |-> cache, users |-> users, orders |-> orders,
     rate_limits |-> rate_limits, last_cleanup |-> last_cleanup,
     processed_messages |-> processed_messages, bgq |-> bgq]

Spawn(w, task) == [w EXCEPT !.bgq = Append(@, task)]

\* one admission step of a call and how it ended: pass, reject or raised
Step(step, result) == [step |-> step, result |-> result]

Outcome(w, outcome, trail, faulted) ==
    [w |-> w, outcome |-> outcome, trail |-> trail, faulted |-> faulted]

\* webhook line 1381: await Database.get_or_create_user(wa_id, to)
AdmitUpsert(w, m, s, t, n, f, trail) ==
    IF f = "user_select" /\ ~CacheLive(w.cache, UserKey(s), t)
    THEN Outcome([w EXCEPT !.cache = CacheAfterGet(@, UserKey(s), t)],
                 "failed", Append(trail, Step("upsert", "raised")), TRUE)
    ELSE LET g == GetOrCreateUser(w.cache, w.users, s, t)
             w1 == [w EXCEPT !.cache = g.cache, !.users = g.users]
         IN Outcome(IF g.touch THEN Spawn(w1, UpdateActivityTask(s)) ELSE w1,
                    "admitted", Append(trail, Step("upsert", "pass")), FALSE)

\* a rate-limit check that upserts the profile before it rejects
AdmitRateTouchesUser(w, m, s, t, n, f, trail) ==
    LET r == CheckRateLimit(w.rate_limits, w.last_cleanup, s, t, n)
        w1 == [w EXCEPT !.rate_limits = r.rate_limits, !.last_cleanup = r.last_cleanup]
        w2 == IF r.sync THEN Spawn(w1, SyncToDbTask(s, WindowStart(t), 1)) ELSE w1
        g == GetOrCreateUser(w2.cache, w2.users, s, t)
        w3 == [w2 EXCEPT !.cache = g.cache, !.users = g.users]
    IN IF ~r.allowed
       THEN Outcome(IF g.touch THEN Spawn(w3, UpdateActivityTask(s)) ELSE w3,
                    "rate_limited", Append(trail, Step("rate", "reject")), FALSE)
       ELSE AdmitUpsert(w2, m, s, t, n, f, Append(trail, Step("rate", "pass")))

\* webhook lines 1375-1379: the rate-limit check
AdmitRate(w, m, s, t, n, f, trail) ==
    LET r == CheckRateLimit(w.rate_limits, w.last_cleanup, s, t, n)
        w1 == [w EXCEPT !.rate_limits = r.rate_limits, !.last_cleanup = r.last_cleanup]
        w2 == IF r.sync THEN Spawn(w1, SyncToDbTask(s, WindowStart(t), 1)) ELSE w1
    IN IF ~r.allowed
       THEN Outcome(w2, "rate_limited", Append(trail, Step("rate", "reject")), FALSE)
       ELSE AdmitUpsert(w2, m, s, t, n, f, Append(trail, Step("rate", "pass")))

\* a blocked-sender check made after the request has been counted
AdmitBlockedAfterCount(w, m, s, t, n, f, trail) ==
    IF f = "blocked_select" /\ ~CacheLive(w.cache, BlockedKey(s), t)
    THEN Outcome([w EXCEPT !.cache = CacheAfterGet(@, BlockedKey(s), t)],
                 "failed", Append(trail, Step("blocked", "raised")), TRUE)
    ELSE LET b == IsUserBlocked(w.cache, w.users, s, t)
             r == CheckRateLimit(w.rate_limits, w.last_cleanup, s, t, n)
             w1 == [w EXCEPT !.cache = b.cache]
         IN IF b.ret
            THEN Outcome([w1 EXCEPT !.rate_limits = r.rate_limits,
                                    !.last_cleanup = r.last_cleanup],
                         "blocked", Append(trail, Step("blocked", "reject")), FALSE)
            ELSE AdmitRate(w1, m, s, t, n, f, Append(trail, Step("blocked", "pass")))

\* a blocked-sender check whose answer is logged but not acted on
AdmitBlockedIgnored(w, m, s, t, n, f, trail) ==
    LET b == IsUserBlocked(w.cache, w.users, s, t)
        w1 == [w EXCEPT !.cache = b.cache]
    IN AdmitRate(w1, m, s, t, n, f,
                 Append(trail, Step("blocked", IF b.ret THEN "reject" ELSE "pass")))

\* webhook lines 1371-1373: the blocked-sender check
AdmitBlocked(w, m, s, t, n, f, trail) ==
    IF f = "blocked_select" /\ ~CacheLive(w.cache, BlockedKey(s), t)
    THEN Outcome([w EXCEPT !.cache = CacheAfterGet(@, BlockedKey(s), t)],
                 "failed", Append(trail, Step("blocked", "raised")), TRUE)
    ELSE LET b == IsUserBlocked(w.cache, w.users, s, t)
             w1 == [w EXCEPT !.cache = b.cache]
         IN IF b.ret
            THEN Outcome(w1, "blocked", Append(trail, Step("blocked", "reject")), FALSE)
            ELSE AdmitRate(w1, m, s, t, n, f, Append(trail, Step("blocked", "pass")))

\* webhook line 1369: await Database.mark_processed(msg_id, wa_id, kind)
AdmitMark(w, m, s, t, n, f, trail) ==
    AdmitBlocked(Spawn([w EXCEPT !.cache = MarkProcessed(@, m, t)],
                       InsertProcessedTask(m, s)),
                 m, s, t, n, f, Append(trail, Step("mark", "pass")))

\* webhook lines 1365-1381: the admission steps, in the order of the code:
\* dedup, mark, blocked, rate limit, profile upsert
Admission(w, m, s, t, n, f) ==
    IF f = "dedup_select" /\ ~CacheLive(w.cache, ProcessedKey(m), t)
    THEN Outcome([w EXCEPT !.cache = CacheAfterGet(@, ProcessedKey(m), t)],
                 "failed", <<Step("dedup", "raised")>>, TRUE)
    ELSE LET d == AlreadyProcessed(w.cache, w.processed_messages, m, t)
             w1 == [w EXCEPT !.cache = d.cache]
         IN IF d.ret
            THEN Outcome(w1, "duplicate", <<Step("dedup", "reject")>>, FALSE)
            ELSE AdmitMark(w1, m, s, t, n, f, <<Step("dedup", "pass")>>)

\* Database.get_menu_items: read-through cache of the menu table
MenuKey == <<"menu_items", "all">>
GetMenuItems(c, t) ==
    IF CacheLive(c, MenuKey, t) THEN c
    ELSE CacheSet(CacheAfterGet(c, MenuKey, t), MenuKey, ItemIds, MENU_TTL, t)

\* What a handler has done when it first awaits the transport:
\* pc is where the call is suspended, order the local `order` of the flow.
Handler(w, pc, status, order, faulted) ==
    [w |-> w, pc |-> pc, status |-> status, order |-> order, faulted |-> faulted]

\* Database.log_message: a log row is written only when logging is enabled
LogTasks(tasks) == IF config.ENABLE_MESSAGE_LOGGING THEN tasks ELSE <<>>

\* webhook lines 1383-1384 and 1532-1533: the inbound log of an admitted
\* event, and the error log when its handler raised
InboundLogs(s, failed) ==
    IF failed THEN <<LogMessageTask(s, "inbound", "success"),
                     LogMessageTask(s, "inbound", "error")>>
    ELSE <<LogMessageTask(s, "inbound", "success")>>

\* WhatsAppAPI.send_text / send_buttons / send_list: the outbound log of a
\* message that was sent
OutboundLog(s) == <<LogMessageTask(s, "outbound", "success")>>

\* an exception inside the try block of webhook that leaves the handler
HandlerFailedPropagates(w, s) == Handler(w, "done", "500", NoOrder, TRUE)

\* an exception inside the try block of webhook: status "error", HTTP 200;
\* the inbound log of line 1383 and the error log of line 1532 are started
HandlerFailed(w, s) ==
    Handler([w EXCEPT !.bgq = @ \o LogTasks(InboundLogs(s, TRUE))],
            "done", "error", NoOrder, TRUE)

\* Database.create_order_from_catalogue / Database.create_order up to the
\* first await of the transport: get_or_create_user, then the insert
CreateOrderFlow(w, row, t, f) ==
    LET g == GetOrCreateUser(w.cache, w.users, row.wa_id, t)
        w0 == [w EXCEPT !.cache = g.cache, !.users = g.users]
        w1 == IF g.touch THEN Spawn(w0, UpdateActivityTask(row.wa_id)) ELSE w0
    IN IF f = "handler_db" THEN HandlerFailed(w1, row.wa_id)
       ELSE LET ins == InsertOrder(w1.cache, w1.orders, row, t) IN
            Handler([w1 EXCEPT !.cache = ins.cache, !.orders = ins.orders],
                    "sending", "ok", ins.order, FALSE)

\* BotFlows.show_checkout up to the first send
ShowCheckout(w, s, t, f) ==
    IF f = "handler_db" /\ ~CacheLive(w.cache, PendingKey(s), t)
    THEN HandlerFailed([w EXCEPT !.cache = CacheAfterGet(@, PendingKey(s), t)], s)
    ELSE LET g == GetPendingOrder(w.cache, w.orders, s, t) IN
         Handler([w EXCEPT !.cache = g.cache], "sending", "ok", g.order, FALSE)

\* BotFlows.show_bank_transfer_details up to the send of the bank details;
\* the update of the order follows that send (BankUpdate)
ShowBankTransferDetails(w, s, t, f) ==
    IF f = "handler_db" /\ ~CacheLive(w.cache, PendingKey(s), t)
    THEN HandlerFailed([w EXCEPT !.cache = CacheAfterGet(@, PendingKey(s), t)], s)
    ELSE LET g == GetPendingOrder(w.cache, w.orders, s, t) IN
         Handler([w EXCEPT !.cache = g.cache],
                 IF g.order.id = 0 THEN "sending" ELSE "bank_send", "ok", g.order, FALSE)

\* BotFlows.confirm_payment up to the send of the receipt
ConfirmPayment(w, s, t, f) ==
    IF f = "handler_db" /\ ~CacheLive(w.cache, PendingKey(s), t)
    THEN HandlerFailed([w EXCEPT !.cache = CacheAfterGet(@, PendingKey(s), t)], s)
    ELSE LET g == GetPendingOrder(w.cache, w.orders, s, t) IN
         IF g.order.id = 0
         THEN Handler([w EXCEPT !.cache = g.cache], "sending", "ok", g.order, FALSE)
         ELSE IF f = "handler_db"
         THEN HandlerFailed([w EXCEPT !.cache = g.cache], s)
         ELSE LET u == UpdateOrderPayment(g.cache, w.orders, g.order.id,
                                          g.order.payment_method, "confirmed", t) IN
              Handler([w EXCEPT !.cache = u.cache, !.orders = u.orders],
                      "sending", "ok", g.order, FALSE)

\* BotFlows.show_history up to the first send
ShowHistory(w, s, t, f) ==
    IF f = "handler_db" /\ ~(CacheLive(w.cache, HistoryKey(s), t)
                             /\ w.cache[HistoryKey(s)].value # <<>>)
    THEN HandlerFailed([w EXCEPT !.cache = CacheAfterGet(@, HistoryKey(s), t)], s)
    ELSE LET g == GetOrderHistory(w.cache, w.orders, s, t) IN
         Handler([w EXCEPT !.cache = g.cache], "sending", "ok", NoOrder, FALSE)

\* the try block of webhook (lines 1386-1528) up to the first await of the
\* transport, by action
Dispatch(w, pl, s, t, f) ==
    LET action == MessageAction(pl)
        nextId == Len(w.orders) + 1
    IN CASE action = "create_order_from_catalogue" ->
              CreateOrderFlow(w, CatalogueOrderRow(nextId, s, pl.items, t), t, f)
         [] action = "create_order" ->
              CreateOrderFlow([w EXCEPT !.cache = GetMenuItems(@, t)],
                              LegacyOrderRow(nextId, s, pl.arg, ItemPrice(pl.arg), t), t, f)
         [] action = "show_checkout" -> ShowCheckout(w, s, t, f)
         [] action = "show_bank_transfer_details" -> ShowBankTransferDetails(w, s, t, f)
         [] action = "confirm_payment" -> ConfirmPayment(w, s, t, f)
         [] action = "show_history" -> ShowHistory(w, s, t, f)
         [] action \in {"show_menu", "show_order_list"} ->
              Handler([w EXCEPT !.cache = GetMenuItems(@, t)], "sending", "ok", NoOrder, FALSE)
         [] OTHER -> Handler(w, "sending", "ok", NoOrder, FALSE)

\* ------------------------------------------------------------ environment
Item(pid, price, qty) == [product_retailer_id |-> pid, item_price |-> price, quantity |-> qty]

Payload(id, from, via, kind, arg, items) ==
    [id |-> id, from |-> from, via |-> via, kind |-> kind, arg |-> arg, items |-> items,
     text |-> <<>>]

\* a text event with the characters of its body
Text(id, from, body) ==
    [Payload(id, from, "messages", "text", "-", <<>>) EXCEPT !.text = body]

\* inbound events
CatalogueOrder == Payload("m1", "s1", "messages", "order", "-", <<Item("A", 45000, 2)>>)
PayBank == Payload("m2", "s1", "messages", "button", "BTN_PAY_BANK", <<>>)
ConfirmButton == Payload("m3", "s1", "messages", "button", "BTN_CONFIRM_PAYMENT", <<>>)
ListOrder == Payload("m4", "s1", "messages", "list", "ITEM_FRIES", <<>>)
HelloS2 == Text("m5", "s2", <<"h", "i">>)
HelloS1 == Text("m6", "s1", <<"h", "i">>)
StoreS1 == Text("m7", "s1", <<"s", "t", "o", "r", "e">>)
HistoryText == Text("m9", "s1", <<"h", "i", "s", "t", "o", "r", "y">>)
HistoryButton == Payload("m10", "s1", "messages", "button", "BTN_HISTORY", <<>>)

Procs == {"p1", "p2"}

IdleProc ==
    [pc |-> "idle", id |-> <<"wamid", "-", 0>>, wa_id |-> "-", action |-> "-",
     status |-> "-", order |-> NoOrder, trail |-> <<>>, sawMarked |-> FALSE,
     sent |-> {}]

\* a scenario: what the environment may deliver and how much of it
Scenario(payloads, dlvs, tcks, steps, flts) ==
    [payloads |-> payloads, deliveries |-> dlvs, ticks |-> tcks,
     steps |-> steps, faults |-> flts]

NoCacheOp == [op |-> "-", key |-> <<"-", "-">>, at |-> 0, ret |-> "None",
              prev |-> "-", prevKey |-> <<"-", "-">>]

NoCheck == [wa_id |-> "-", at |-> 0, allowed |-> FALSE, remaining |-> 0,
            before |-> 0, prev |-> NoTime, count |-> 0]

InitStore ==
    /\ now = 0
    /\ ticks = 0
    /\ cache = CacheClear(<<>>)
    /\ rate_limits = [x \in {} |-> [count |-> 0, window |-> 0]]
    /\ last_cleanup = 0
    /\ processed_messages = {}
    /\ orders = <<>>
    /\ rate_limits_db = {}
    /\ bgq = <<>>
    /\ procs = [p \in Procs |-> IdleProc]
    /\ response = IdleProc
    /\ deliveries = 0
    /\ handled = [x \in {} |-> 0]
    /\ markedIds = {}
    /\ windowAllowed = [x \in {} |-> [window |-> 0, n |-> 0]]
    /\ faults = 0
    /\ lastCheck = NoCheck
    /\ allowedW = [x \in {} |-> [window |-> 0, n |-> 0, at |-> 0]]
    /\ paid = [x \in {} |-> <<>>]
    /\ cacheOp = NoCacheOp
    /\ written = [x \in {} |-> [value |-> "None", at |-> 0, ttl |-> 0]]
    /\ message_logs = {}

\* s1 is a new sender; s2 has a users row, blocked or not
InitUsers(s2blocked) ==
    users = [s \in Senders |->
               IF s = "s2" THEN [rows |-> 1, is_blocked |-> s2blocked, last_active_at |-> 0]
               ELSE [rows |-> 0, is_blocked |-> FALSE, last_active_at |-> NoTime]]

SetWorld(w) ==
    /\ cache' = w.cache
    /\ users' = w.users
    /\ orders' = w.orders
    /\ rate_limits' = w.rate_limits
    /\ last_cleanup' = w.last_cleanup
    /\ bgq' = w.bgq
    /\ processed_messages' = w.processed_messages

Faults == {"dedup_select", "blocked_select", "user_select", "handler_db"}

Bump(fn, k) ==
    [x \in DOMAIN fn \cup {k} |-> IF x = k THEN (IF k \in DOMAIN fn THEN fn[k] + 1 ELSE 1)
                                  ELSE fn[x]]

CountAllowed(wa, s, w) ==
    [x \in DOMAIN wa \cup {s} |->
        IF x = s THEN (IF s \in DOMAIN wa /\ wa[s].window = w
                       THEN [window |-> w, n |-> wa[s].n + 1]
                       ELSE [window |-> w, n |-> 1])
        ELSE wa[x]]

\* the payment flows that found an order: flow is recorded on order id k
Record(fn, k, flow) ==
    [x \in DOMAIN fn \cup {k} |->
        IF x = k THEN (IF k \in DOMAIN fn THEN Append(fn[k], flow) ELSE <<flow>>)
        ELSE fn[x]]

\* the slot a new call takes: slots are interchangeable, the first free one
FreeProc == IF procs["p1"].pc = "idle" THEN "p1" ELSE "p2"

InFlight == {p \in Procs : procs[p].pc # "idle"}

HasStep(trail, step, result) ==
    \E i \in 1..Len(trail) : trail[i].step = step /\ trail[i].result = result

\* webhook from the arrival of the request (after `await request.body()`) to
\* its first await of the transport or its return: extract_message, the
\* admission steps and the handler's store calls run without suspension.
Deliver(p, pl, f) ==
    /\ p = FreeProc
    /\ procs[p].pc = "idle"
    /\ deliveries < env.deliveries
    /\ bgq = <<>>
    /\ f = "none" \/ faults < env.faults
    /\ LET m == ExtractId(pl, now)
           s == pl.from
           a == Admission(World, m, s, now, config.RATE_LIMIT_REQUESTS, f)
           h == IF a.outcome = "admitted" THEN Dispatch(a.w, pl, s, now, f)
                ELSE Handler(a.w,
                             IF a.outcome = "rate_limited" THEN "notice" ELSE "done",
                             IF a.outcome = "failed" THEN "500" ELSE a.outcome,
                             NoOrder, a.faulted)
           call == [pc |-> h.pc, id |-> m, wa_id |-> s,
                    action |-> IF a.outcome = "admitted" THEN MessageAction(pl) ELSE "-",
                    status |-> IF h.pc = "done" THEN h.status ELSE "-",
                    order |-> h.order,
                    trail |-> IF a.outcome = "admitted"
                              THEN Append(a.trail, Step("dispatch", "pass")) ELSE a.trail,
                    sawMarked |-> m \in markedIds,
                    sent |-> {}]
       IN /\ h.faulted = (f # "none")
          /\ SetWorld(h.w)
          /\ IF h.pc = "done"
             THEN procs' = procs /\ response' = call
             ELSE procs' = [procs EXCEPT ![p] = call] /\ response' = response
          /\ handled' = IF a.outcome = "admitted" THEN Bump(handled, m) ELSE handled
          /\ markedIds' = IF CacheLive(h.w.cache, ProcessedKey(m), now)
                          THEN markedIds \cup {m} ELSE markedIds
          /\ windowAllowed' = IF HasStep(a.trail, "rate", "pass")
                              THEN CountAllowed(windowAllowed, s, WindowStart(now))
                              ELSE windowAllowed
          /\ faults' = IF f = "none" THEN faults ELSE faults + 1
          /\ paid' = IF /\ a.outcome = "admitted"
                        /\ MessageAction(pl) \in {"show_bank_transfer_details", "confirm_payment"}
                        /\ h.order.id # 0
                     THEN Record(paid, h.order.id, MessageAction(pl))
                     ELSE paid
    /\ deliveries' = deliveries + 1
    /\ UNCHANGED <<now, ticks, config, env, rate_limits_db, lastCheck, allowedW,
                   cacheOp, written, message_logs>>

\* the call of p returns: its slot is free again
Done(p, status, sent) ==
    /\ response' = [procs[p] EXCEPT !.pc = "done", !.status = status,
                                    !.sent = @ \cup sent]
    /\ procs' = [procs EXCEPT ![p] = IdleProc]

\* BotFlows.show_rate_limited returns (webhook line 1378): status
\* rate_limited; a transport error is raised outside the try block
Notice(p, ok) ==
    /\ procs[p].pc = "notice"
    /\ bgq = <<>>
    /\ ok \/ faults < env.faults
    /\ IF ok THEN Done(p, "rate_limited", {"rate_limited_notice"})
       ELSE Done(p, "500", {})
    /\ bgq' = IF ok THEN LogTasks(OutboundLog(procs[p].wa_id)) ELSE <<>>
    /\ faults' = IF ok THEN faults ELSE faults + 1
    /\ UNCHANGED <<now, ticks, config, env, cache, rate_limits, last_cleanup,
                   processed_messages, users, orders, rate_limits_db,
                   deliveries, handled, markedIds, windowAllowed, lastCheck, allowedW, paid, cacheOp, written, message_logs>>

\* show_bank_transfer_details resumes after send_text(bank_details):
\* update_order_payment(order["id"], "bank_transfer", "pending"), then
\* asyncio.sleep(1)
BankUpdate(p, f) ==
    /\ procs[p].pc = "bank_send"
    /\ bgq = <<>>
    /\ f = "none" \/ faults < env.faults
    /\ IF f = "none"
       THEN LET u == UpdateOrderPayment(cache, orders, procs[p].order.id,
                                        "bank_transfer", "pending", now) IN
            /\ cache' = u.cache
            /\ orders' = u.orders
            /\ procs' = [procs EXCEPT ![p].pc = "sending",
                                      ![p].sent = @ \cup {"bank_details"}]
            /\ response' = response
       ELSE /\ Done(p, "error", IF f = "send" THEN {} ELSE {"bank_details"})
            /\ UNCHANGED <<cache, orders>>
    /\ bgq' = LogTasks((IF f = "send" THEN <<>> ELSE OutboundLog(procs[p].wa_id))
                        \o (IF f = "none" THEN <<>> ELSE InboundLogs(procs[p].wa_id, TRUE)))
    /\ faults' = IF f = "none" THEN faults ELSE faults + 1
    /\ UNCHANGED <<now, ticks, config, env, rate_limits, last_cleanup,
                   processed_messages, users, rate_limits_db,
                   deliveries, handled, markedIds, windowAllowed, lastCheck, allowedW, paid, cacheOp, written, message_logs>>

\* the remaining sends of a handler complete (status ok) or the transport
\* raises inside the try block (status error)
Finish(p, ok) ==
    /\ procs[p].pc = "sending"
    /\ bgq = <<>>
    /\ ok \/ faults < env.faults
    /\ IF ok THEN Done(p, "ok", {"screen"}) ELSE Done(p, "error", {})
    /\ bgq' = LogTasks((IF ok THEN OutboundLog(procs[p].wa_id) ELSE <<>>)
                        \o InboundLogs(procs[p].wa_id, ~ok))
    /\ faults' = IF ok THEN faults ELSE faults + 1
    /\ UNCHANGED <<now, ticks, config, env, cache, rate_limits, last_cleanup,
                   processed_messages, users, orders, rate_limits_db,
                   deliveries, handled, markedIds, windowAllowed, lastCheck, allowedW, paid, cacheOp, written, message_logs>>

\* a background write that is started again when its store call fails
BgRunRetries(ok) ==
    /\ bgq # <<>>
    /\ ok \/ faults < env.faults
    /\ bgq' = IF ok THEN Tail(bgq) ELSE Append(Tail(bgq), Head(bgq))
    /\ faults' = IF ok THEN faults ELSE faults + 1
    /\ UNCHANGED <<now, ticks, config, env, cache, rate_limits, last_cleanup, orders,
                   processed_messages, users, rate_limits_db, message_logs,
                   procs, response, deliveries, handled, markedIds, windowAllowed, lastCheck, allowedW, paid, cacheOp, written>>

\* the oldest task started with asyncio.create_task runs; a store error is
\* logged and swallowed
BgRun(ok) ==
    /\ bgq # <<>>
    /\ ok \/ faults < env.faults
    /\ LET task == Head(bgq) IN
       /\ processed_messages' =
             IF ok /\ task.task = "insert_processed"
             THEN processed_messages \cup {task.id} ELSE processed_messages
       /\ users' =
             IF ok /\ task.task = "update_activity" /\ users[task.wa_id].rows > 0
             THEN [users EXCEPT ![task.wa_id].last_active_at = now] ELSE users
       /\ rate_limits_db' =
             IF ok /\ task.task = "sync_to_db"
             THEN {r \in rate_limits_db : ~(r.wa_id = task.wa_id /\ r.window_start = task.at)}
                  \cup {[wa_id |-> task.wa_id, window_start |-> task.at,
                         request_count |-> task.n]}
             ELSE rate_limits_db
       /\ message_logs' =
             IF ok /\ task.task = "insert_message_log"
             THEN message_logs \cup {[wa_id |-> task.wa_id, direction |-> task.direction,
                                      status |-> task.status]}
             ELSE message_logs
    /\ bgq' = Tail(bgq)
    /\ faults' = IF ok THEN faults ELSE faults + 1
    /\ UNCHANGED <<now, ticks, config, env, cache, rate_limits, last_cleanup, orders,
                   procs, response, deliveries, handled, markedIds, windowAllowed, lastCheck, allowedW, paid, cacheOp, written>>

\* POST /admin/cache/clear
ClearCache ==
    /\ bgq = <<>>
    /\ cache # CacheClear(cache)
    /\ cache' = CacheClear(cache)
    /\ UNCHANGED <<now, ticks, config, env, rate_limits, last_cleanup,
                   processed_messages, users, orders, rate_limits_db, bgq, procs,
                   response, deliveries, handled, markedIds, windowAllowed, lastCheck, allowedW, paid, cacheOp, written, message_logs, faults>>

\* the wall clock advances.  A call in flight is suspended on the transport
\* (httpx timeout=30) or on asyncio.sleep(1): a minute boundary may pass
\* under it, an hour may not.
Tick(d) ==
    /\ ticks < env.ticks
    /\ bgq = <<>>
    /\ d > MINUTE => InFlight = {}
    /\ now' = now + d
    /\ ticks' = ticks + 1
    /\ UNCHANGED <<config, env, cache, rate_limits, last_cleanup, processed_messages,
                   users, orders, rate_limits_db, bgq, procs, response, deliveries,
                   handled, markedIds, windowAllowed, lastCheck, allowedW, paid, cacheOp, written, message_logs, faults>>

\* Config defaults: 30 requests per window of 60 seconds, no message log
DefaultConfig == [RATE_LIMIT_REQUESTS |-> 30, RATE_LIMIT_WINDOW_SECONDS |-> 60,
                 ENABLE_MESSAGE_LOGGING |-> FALSE]

\* ----------------------------------------------------- router scenario
\* One sender sends text bodies as typed (padded, capitalised, unknown,
\* empty), known and unknown button and list ids and an image, while a
\* send of the transport may fail.
TextEvents ==
    {Text("t1", "s1", <<" ", "H", "i", " ">>),
     Text("t2", "s1", <<"S", "T", "O", "R", "E">>),
     Text("t3", "s1", <<"m", "y", " ", "o", "r", "d", "e", "r", "s">>),
     Text("t4", "s1", <<"p", "a", "y", "m", "e", "n", "t">>),
     Text("t5", "s1", <<>>),
     Text("t6", "s1", <<"\t", "H", "e", "l", "p", "\n">>),
     Text("t7", "s1", <<"A", "b", "o", "u", "t", " ", "U", "s">>),
     Text("t8", "s1", <<"h", "i", " ", "s", "t", "o", "r", "e">>)}

SelectionEvents ==
    {Payload("b1", "s1", "messages", "button", "BTN_FAQ", <<>>),
     Payload("b2", "s1", "messages", "button", "BTN_UNKNOWN", <<>>),
     Payload("b3", "s1", "messages", "button", "faq", <<>>),
     Payload("l1", "s1", "messages", "list", "ITEM_PIZZA", <<>>),
     Payload("l2", "s1", "messages", "list", "ITEM_UNKNOWN", <<>>),
     Payload("l3", "s1", "messages", "list", "BTN_FAQ", <<>>),
     Payload("i1", "s1", "messages", "image", "-", <<>>)}

InitRouter ==
    /\ InitStore
    /\ InitUsers(FALSE)
    /\ config = DefaultConfig
    /\ env = Scenario(TextEvents \cup SelectionEvents, RouterDeliveries, 0, {}, RouterFaults)

NextRouter ==
    \/ \E p \in Procs, pl \in env.payloads : Deliver(p, pl, "none")
    \/ \E p \in Procs, ok \in BOOLEAN : Finish(p, ok)
    \/ BgRun(TRUE)

SpecRouter == InitRouter /\ [][NextRouter]_vars

\* ------------------------------------------------------ dedup scenario
\* One catalogue order, delivered and redelivered, while the cache expires
\* or is cleared and a store write may fail.
InitDedup ==
    /\ InitStore
    /\ InitUsers(FALSE)
    /\ config = DefaultConfig
    /\ env = Scenario({CatalogueOrder, HelloS2}, DedupDeliveries, DedupTicks,
                      {MINUTE, PROCESSED_TTL}, DedupFaults)

NextDedup ==
    \/ \E p \in Procs, pl \in env.payloads, f \in Faults \cup {"none"} : Deliver(p, pl, f)
    \/ \E p \in Procs, ok \in BOOLEAN : Finish(p, ok)
    \/ \E ok \in BOOLEAN : BgRun(ok)
    \/ ClearCache
    \/ \E d \in env.steps : Tick(d)

SpecDedup == InitDedup /\ [][NextDedup]_vars

\* ------------------------------------------------------ order scenario
\* One sender creates orders by both paths, selects bank transfer and
\* confirms, with two calls in flight.
InitOrders ==
    /\ InitStore
    /\ InitUsers(FALSE)
    /\ config = DefaultConfig
    /\ env = Scenario({CatalogueOrder, ListOrder, PayBank, ConfirmButton},
                      OrderDeliveries, OrderTicks, {PENDING_ORDER_TTL}, 0)

NextOrders ==
    \/ \E p \in Procs, pl \in env.payloads : Deliver(p, pl, "none")
    \/ \E p \in Procs : BankUpdate(p, "none")
    \/ \E p \in Procs : Finish(p, TRUE)
    \/ BgRun(TRUE)
    \/ \E d \in env.steps : Tick(d)

SpecOrders == InitOrders /\ [][NextOrders]_vars

\* -------------------------------------------------- admission scenario
\* Text events of two senders, one of them perhaps blocked, under a limit
\* of two requests per window, while store and transport calls may fail.
InitAdmit ==
    /\ InitStore
    /\ \E b \in BOOLEAN : InitUsers(b)
    /\ \E n \in {1, 2} : config = [RATE_LIMIT_REQUESTS |-> n, RATE_LIMIT_WINDOW_SECONDS |-> 60,
                 ENABLE_MESSAGE_LOGGING |-> FALSE]
    /\ env = Scenario({HelloS1, StoreS1, HelloS2}, AdmitDeliveries, AdmitTicks,
                      {MINUTE}, AdmitFaults)

NextAdmit ==
    \/ \E p \in Procs, pl \in env.payloads, f \in Faults \cup {"none"} : Deliver(p, pl, f)
    \/ \E p \in Procs, ok \in BOOLEAN : Notice(p, ok)
    \/ \E p \in Procs, ok \in BOOLEAN : Finish(p, ok)
    \/ \E ok \in BOOLEAN : BgRun(ok)
    \/ \E d \in env.steps : Tick(d)

SpecAdmit == InitAdmit /\ [][NextAdmit]_vars

\* --------------------------------------------------- identity scenario
\* A catalogue order arrives as a message with a provider id and as an
\* orders array without one; each payload is delivered again, seconds
\* later.
OrdersArrayOrder == Payload("c1", "s1", "orders", "order", "-", <<Item("B", 35000, 1)>>)

InitIdentity ==
    /\ InitStore
    /\ InitUsers(FALSE)
    /\ config = DefaultConfig
    /\ env = Scenario({CatalogueOrder, OrdersArrayOrder}, IdentityDeliveries, IdentityTicks,
                      {1}, 0)

NextIdentity ==
    \/ \E p \in Procs, pl \in env.payloads : Deliver(p, pl, "none")
    \/ \E p \in Procs : Finish(p, TRUE)
    \/ BgRun(TRUE)
    \/ \E d \in env.steps : Tick(d)

SpecIdentity == InitIdentity /\ [][NextIdentity]_vars

\* ------------------------------------------------- redelivery scenario
\* A blocked sender and a sender limited to one request per window have
\* their events delivered again, while the cache expires or is cleared and
\* the write of the dedup log may fail.
InitRedeliver ==
    /\ InitStore
    /\ InitUsers(TRUE)
    /\ config = [RATE_LIMIT_REQUESTS |-> 1, RATE_LIMIT_WINDOW_SECONDS |-> 60,
                 ENABLE_MESSAGE_LOGGING |-> FALSE]
    /\ env = Scenario({HelloS1, StoreS1, HelloS2}, RedeliverDeliveries, RedeliverTicks,
                      {MINUTE, PROCESSED_TTL}, RedeliverFaults)

NextRedeliver ==
    \/ \E p \in Procs, pl \in env.payloads : Deliver(p, pl, "none")
    \/ \E p \in Procs : Notice(p, TRUE)
    \/ \E p \in Procs : Finish(p, TRUE)
    \/ \E ok \in BOOLEAN : BgRun(ok)
    \/ ClearCache
    \/ \E d \in env.steps : Tick(d)

SpecRedeliver == InitRedeliver /\ [][NextRedeliver]_vars

\* ------------------------------------------------- background scenario
\* Text events of two senders with the message log enabled and a limit of
\* one request per window, while the store calls of the detached tasks may
\* fail.
InitBackground ==
    /\ InitStore
    /\ InitUsers(FALSE)
    /\ config = [RATE_LIMIT_REQUESTS |-> 1, RATE_LIMIT_WINDOW_SECONDS |-> 60,
                 ENABLE_MESSAGE_LOGGING |-> TRUE]
    /\ env = Scenario({HelloS1, StoreS1, HelloS2}, BackgroundDeliveries, BackgroundTicks,
                      {MINUTE}, BackgroundFaults)

NextBackground ==
    \/ \E p \in Procs, pl \in env.payloads : Deliver(p, pl, "none")
    \/ \E p \in Procs : Notice(p, TRUE)
    \/ \E p \in Procs : Finish(p, TRUE)
    \/ \E ok \in BOOLEAN : BgRun(ok)
    \/ \E d \in env.steps : Tick(d)

SpecBackground == InitBackground /\ [][NextBackground]_vars

\* ------------------------------------------------- rate limiter scenario
\* check_rate_limit called directly, for two senders, under each
\* configuration of the limit and the window size.
Trunc(t, size) == t - (t % size)

CountW(aw, s, w, allowed, t) ==
    [x \in DOMAIN aw \cup {s} |->
        IF x = s
        THEN (IF s \in DOMAIN aw /\ aw[s].window = w
              THEN [window |-> w, n |-> aw[s].n + (IF allowed THEN 1 ELSE 0), at |-> t]
              ELSE [window |-> w, n |-> IF allowed THEN 1 ELSE 0, at |-> t])
        ELSE aw[x]]

RateCheck(s) ==
    /\ deliveries < env.deliveries
    /\ bgq = <<>>
    /\ LET n == config.RATE_LIMIT_REQUESTS
           size == config.RATE_LIMIT_WINDOW_SECONDS
           r == CheckRateLimit(rate_limits, last_cleanup, s, now, n)
       IN /\ rate_limits' = r.rate_limits
          /\ last_cleanup' = r.last_cleanup
          /\ bgq' = IF r.sync THEN Append(bgq, SyncToDbTask(s, WindowStart(now), 1)) ELSE bgq
          /\ windowAllowed' = IF r.allowed
                              THEN CountAllowed(windowAllowed, s, WindowStart(now))
                              ELSE windowAllowed
          /\ allowedW' = CountW(allowedW, s, Trunc(now, size), r.allowed, now)
          /\ lastCheck' =
                [wa_id |-> s, at |-> now, allowed |-> r.allowed,
                 remaining |-> r.remaining,
                 before |-> IF s \in DOMAIN allowedW /\ allowedW[s].window = Trunc(now, size)
                            THEN allowedW[s].n ELSE 0,
                 prev |-> IF s \in DOMAIN allowedW THEN allowedW[s].at ELSE NoTime,
                 count |-> r.rate_limits[s].count]
    /\ deliveries' = deliveries + 1
    /\ UNCHANGED <<now, ticks, config, env, cache, processed_messages, users, orders,
                   rate_limits_db, procs, response, handled, markedIds, faults,
                   paid, cacheOp, written, message_logs>>

RateLimitChoices == {1, 2}
WindowChoices == {60, 120}

InitRate ==
    /\ InitStore
    /\ InitUsers(FALSE)
    /\ \E n \in RateLimitChoices, size \in WindowChoices :
          config = [RATE_LIMIT_REQUESTS |-> n, RATE_LIMIT_WINDOW_SECONDS |-> size,
                    ENABLE_MESSAGE_LOGGING |-> FALSE]
    /\ env = Scenario({}, RateChecks, RateTicks, {1, MINUTE}, 0)

NextRate ==
    \/ \E s \in Senders : RateCheck(s)
    \/ BgRun(TRUE)
    \/ \E d \in env.steps : Tick(d)

SpecRate == InitRate /\ [][NextRate]_vars

\* --------------------------------------------------------- sweep scenario
\* check_rate_limit called directly for two senders, minutes, hours and
\* days apart, or a second apart.
InitSweep ==
    /\ InitStore
    /\ InitUsers(FALSE)
    /\ config = DefaultConfig
    /\ env = Scenario({}, SweepChecks, SweepTicks, {1, MINUTE, CLEANUP_INTERVAL, DAY}, 0)

NextSweep ==
    \/ \E s \in Senders : RateCheck(s)
    \/ BgRun(TRUE)
    \/ \E d \in env.steps : Tick(d)

SpecSweep == InitSweep /\ [][NextSweep]_vars

\* -------------------------------------------------- catalogue scenario
\* Catalogue orders with every list of up to CatalogueLines lines over a
\* few unit prices (0 included) and quantities.
LineChoices == {Item("A", price, qty) : price \in {0, 45000}, qty \in {1, 2}}
ItemLists == UNION {[1..k -> LineChoices] : k \in 0..CatalogueLines}

InitCatalogue ==
    /\ InitStore
    /\ InitUsers(FALSE)
    /\ config = DefaultConfig
    /\ env = Scenario({Payload(id, "s1", "messages", "order", "-", items) :
                          id \in {"m1", "m8"}, items \in ItemLists},
                      CatalogueDeliveries, 0, {}, 0)

NextCatalogue ==
    \/ \E p \in Procs, pl \in env.payloads : Deliver(p, pl, "none")
    \/ \E p \in Procs : Finish(p, TRUE)
    \/ BgRun(TRUE)

SpecCatalogue == InitCatalogue /\ [][NextCatalogue]_vars

\* ------------------------------------------------ order history scenario
\* One sender orders, pays and looks at its order history in between.
InitHistory ==
    /\ InitStore
    /\ InitUsers(FALSE)
    /\ config = DefaultConfig
    /\ env = Scenario({CatalogueOrder, PayBank, ConfirmButton, HistoryText, HistoryButton},
                      HistoryDeliveries, HistoryTicks, {ORDER_HISTORY_TTL}, 0)

NextHistory ==
    \/ \E p \in Procs, pl \in env.payloads : Deliver(p, pl, "none")
    \/ \E p \in Procs : BankUpdate(p, "none")
    \/ \E p \in Procs : Finish(p, TRUE)
    \/ BgRun(TRUE)
    \/ \E d \in env.steps : Tick(d)

SpecHistory == InitHistory /\ [][NextHistory]_vars

\* ------------------------------------------------------- cache scenario
\* Direct calls of Cache.get / set / delete / clear on two keys while the
\* clock advances by 1 s and 59 s (so that an expiry time is met exactly).
CacheKeys == {<<"k", "1">>, <<"k", "2">>}
CacheValues == {"a", "b"}
TtlChoices == {1, MINUTE}

CacheCall(op, k, ret) ==
    /\ deliveries < env.deliveries
    /\ deliveries' = deliveries + 1
    /\ cacheOp' = [op |-> op, key |-> k, at |-> now, ret |-> ret,
                   prev |-> cacheOp.op, prevKey |-> cacheOp.key]
    /\ UNCHANGED <<now, ticks, config, env, rate_limits, last_cleanup,
                   processed_messages, users, orders, rate_limits_db, bgq, procs,
                   response, handled, markedIds, windowAllowed, faults,
                   lastCheck, allowedW, paid, message_logs>>

\* Cache.get(key): the value of a live entry, else None; an expired entry
\* is deleted
Get(k) ==
    /\ CacheCall("get", k, IF CacheLive(cache, k, now) THEN cache[k].value ELSE "None")
    /\ cache' = CacheAfterGet(cache, k, now)
    /\ written' = written

\* Cache.set(key, value, ttl_seconds)
Set(k, v, ttl) ==
    /\ CacheCall("set", k, "None")
    /\ cache' = CacheSet(cache, k, v, ttl, now)
    /\ written' = [x \in DOMAIN written \cup {k} |->
                      IF x = k THEN [value |-> v, at |-> now, ttl |-> ttl] ELSE written[x]]

\* Cache.delete(key)
Delete(k) ==
    /\ CacheCall("delete", k, "None")
    /\ cache' = CacheDelete(cache, k)
    /\ written' = [x \in DOMAIN written \ {k} |-> written[x]]

\* Cache.clear()
Clear ==
    /\ CacheCall("clear", <<"-", "-">>, "None")
    /\ cache' = CacheClear(cache)
    /\ written' = [x \in {} |-> written[x]]

InitCache ==
    /\ InitStore
    /\ InitUsers(FALSE)
    /\ config = DefaultConfig
    /\ env = Scenario({}, CacheCalls, CacheTicks, {1, MINUTE - 1}, 0)

NextCache ==
    \/ \E k \in CacheKeys : Get(k)
    \/ \E k \in CacheKeys, v \in CacheValues, ttl \in TtlChoices : Set(k, v, ttl)
    \/ \E k \in CacheKeys : Delete(k)
    \/ Clear
    \/ \E d \in env.steps : Tick(d)

SpecCache == InitCache /\ [][NextCache]_vars

\* ================================================================ claims
\* the webhook calls the state shows: those in flight and the last returned
Slots == Procs \cup {"returned"}
CallAt(x) == IF x = "returned" THEN response ELSE procs[x]
Calls == {CallAt(x) : x \in {y \in Slots : CallAt(y).pc # "idle"}}

\* C1: a message id is dispatched to a handler at most once, however often
\* it is delivered (the second delivery is a duplicate).
C1_OneHandlerPerMessageId == \A m \in DOMAIN handled : handled[m] <= 1

\* C2: once mark_processed has returned for a message id, no later
\* already_processed call for that id answers false.
C2_MarkedStaysProcessed ==
    \A c \in Calls : c.sawMarked => ~HasStep(c.trail, "dedup", "pass")

\* C3: two calls carrying the same message id never both pass the dedup
\* check unless one of them made its check after the id had been marked:
\* no two calls both see "not processed" before either has marked the id.
C3_NoDoublePassBeforeMark ==
    \A x \in Slots, y \in Slots :
        (/\ x # y
         /\ CallAt(x).pc # "idle" /\ CallAt(y).pc # "idle"
         /\ CallAt(x).id = CallAt(y).id
         /\ HasStep(CallAt(x).trail, "dedup", "pass")
         /\ HasStep(CallAt(y).trail, "dedup", "pass"))
        => (CallAt(x).sawMarked \/ CallAt(y).sawMarked)

\* a redelivery arrived while the first call of that id was still awaiting
\* the transport, and was answered duplicate
C3_Witness ==
    \E p \in Procs :
        /\ procs[p].pc = "sending"
        /\ HasStep(procs[p].trail, "dedup", "pass")
        /\ response.pc = "done"
        /\ response.id = procs[p].id
        /\ response.status = "duplicate"

\* C4: every call takes the admission steps in the order dedup, mark,
\* blocked, rate limit, profile upsert, dispatch; a step runs only if every
\* earlier step passed, so a handler is dispatched only after the dedup
\* check answered "not processed" and all other checks passed.
AdmissionOrder == <<"dedup", "mark", "blocked", "rate", "upsert", "dispatch">>

C4_AdmissionOrder ==
    \A c \in Calls :
        /\ Len(c.trail) <= Len(AdmissionOrder)
        /\ \A i \in 1..Len(c.trail) :
              /\ c.trail[i].step = AdmissionOrder[i]
              /\ i < Len(c.trail) => c.trail[i].result = "pass"
        /\ c.pc \in {"sending", "bank_send"} => c.action # "-"
        /\ c.action # "-" => /\ HasStep(c.trail, "dedup", "pass")
                             /\ HasStep(c.trail, "dispatch", "pass")

\* a blocked sender was turned away at the third step while a call of the
\* other sender that passed all steps is still in flight
C4_Witness ==
    /\ response.pc = "done"
    /\ response.status = "blocked"
    /\ Len(response.trail) = 3
    /\ \E p \in Procs : procs[p].pc = "sending" /\ Len(procs[p].trail) = 6

\* C5: with limit N and window size W, a check is allowed exactly when fewer
\* than N checks of the sender were allowed before it in the same W-second
\* window; a denied check has remaining 0 and the first check of a window
\* has remaining N-1.
C5_RateWindowCorrect ==
    lastCheck.wa_id # "-" =>
        /\ lastCheck.allowed = (lastCheck.before < config.RATE_LIMIT_REQUESTS)
        /\ ~lastCheck.allowed => lastCheck.remaining = 0
        /\ lastCheck.before = 0 => lastCheck.remaining = config.RATE_LIMIT_REQUESTS - 1

\* C6: two successive checks of a sender count against the same window
\* exactly when their times truncate to the same multiple of
\* RATE_LIMIT_WINDOW_SECONDS.
C6_WindowIsConfiguredSize ==
    (lastCheck.wa_id # "-" /\ lastCheck.prev # NoTime) =>
        ((~lastCheck.allowed \/ lastCheck.count > 1)
         = (Trunc(lastCheck.prev, config.RATE_LIMIT_WINDOW_SECONDS)
            = Trunc(lastCheck.at, config.RATE_LIMIT_WINDOW_SECONDS)))

\* C7: the stored count of a sender equals the number of checks of that
\* sender allowed in the stored window, also when calls of the sender are
\* in flight together.
C7_NoLostIncrement ==
    \A s \in DOMAIN rate_limits :
        /\ s \in DOMAIN windowAllowed
        /\ windowAllowed[s].window = rate_limits[s].window
        /\ windowAllowed[s].n = rate_limits[s].count

\* two calls of one sender are in flight together and both were counted
C7_Witness ==
    /\ procs["p1"].pc = "sending" /\ procs["p2"].pc = "sending"
    /\ procs["p1"].wa_id = procs["p2"].wa_id
    /\ procs["p1"].wa_id \in DOMAIN rate_limits
    /\ rate_limits[procs["p1"].wa_id].count = 2

\* C8: an order that is placed is never pending_payment again and never
\* loses its confirmation timestamp.
C8_StatusNeverRegresses ==
    [][\A i \in 1..Len(orders) :
          orders[i].status = "placed" =>
             /\ orders'[i].status # "pending_payment"
             /\ orders'[i].payment_confirmed_at # NoTime]_vars

\* the line totals of a row: its items, or the single line of a legacy row
LineTotals(row) ==
    IF row.items # <<>> THEN SumTotals(row.items) ELSE row.item_price * row.quantity

Amounts(row) == <<row.items, row.item_price, row.quantity, row.subtotal,
                  row.tax_amount, row.total_amount>>

\* C9: every stored order has total = subtotal + tax and subtotal = the sum
\* of its line totals, and no step changes the amounts or lines of an
\* existing order.
C9_TotalsHold ==
    /\ [](\A i \in 1..Len(orders) :
             /\ orders[i].total_amount = orders[i].subtotal + orders[i].tax_amount
             /\ orders[i].subtotal = LineTotals(orders[i]))
    /\ [][\A i \in 1..Len(orders) : Amounts(orders'[i]) = Amounts(orders[i])]_vars

\* orders of both creation paths exist, one of them placed and one with a
\* payment method recorded
C9_Witness ==
    /\ \E i \in 1..Len(orders) : orders[i].order_source = "meta_catalogue"
                                 /\ orders[i].status = "placed"
    /\ \E i \in 1..Len(orders) : orders[i].order_source = "bot_menu"
                                 /\ orders[i].payment_method = "bank_transfer"

\* C10: payment_confirmed_at is set exactly when payment_status is confirmed.
C10_ConfirmedIffStamped ==
    \A i \in 1..Len(orders) :
        (orders[i].payment_confirmed_at # NoTime) = (orders[i].payment_status = "confirmed")

\* one order is confirmed while another has a method recorded and is pending
C10_Witness ==
    /\ \E i \in 1..Len(orders) : orders[i].payment_status = "confirmed"
    /\ \E i \in 1..Len(orders) : orders[i].payment_status = "pending"

\* the sum of unit price times quantity over a list of lines
RECURSIVE SumPriceQty(_)
SumPriceQty(lines) ==
    IF lines = <<>> THEN 0
    ELSE Head(lines).item_price * Head(lines).quantity + SumPriceQty(Tail(lines))

\* C11: a catalogue order with lines (product, p_i, q_i) is created with
\* each line total p_i * q_i, subtotal the sum of p_i * q_i, tax 0, total =
\* subtotal and status pending_payment; the stored amounts stay so.
C11_MultiItemTotals ==
    /\ \A c \in Calls :
          (c.action = "create_order_from_catalogue" /\ c.order.id # 0) =>
             \E pl \in env.payloads :
                /\ ExtractId(pl, now) = c.id
                /\ Len(c.order.items) = Len(pl.items)
                /\ \A i \in 1..Len(pl.items) :
                      /\ c.order.items[i].product_retailer_id = pl.items[i].product_retailer_id
                      /\ c.order.items[i].item_price = pl.items[i].item_price
                      /\ c.order.items[i].quantity = pl.items[i].quantity
                      /\ c.order.items[i].item_total
                            = pl.items[i].item_price * pl.items[i].quantity
                /\ c.order.subtotal = SumPriceQty(pl.items)
                /\ c.order.tax_amount = 0
                /\ c.order.total_amount = c.order.subtotal
                /\ c.order.status = "pending_payment"
    /\ \A i \in 1..Len(orders) :
          orders[i].order_source = "meta_catalogue" =>
             /\ \A j \in 1..Len(orders[i].items) :
                   orders[i].items[j].item_total
                      = orders[i].items[j].item_price * orders[i].items[j].quantity
             /\ orders[i].subtotal = SumPriceQty(orders[i].items)
             /\ orders[i].tax_amount = 0
             /\ orders[i].total_amount = orders[i].subtotal

\* a two-line order (45000 x 2 + 45000 x 1 = 135000) is stored
C11_Witness ==
    \E i \in 1..Len(orders) :
        /\ Len(orders[i].items) = 2
        /\ orders[i].items[1].item_total = 90000
        /\ orders[i].items[2].item_total = 45000
        /\ orders[i].subtotal = 135000
        /\ orders[i].total_amount = 135000
        /\ orders[i].status = "pending_payment"

\* no call is in flight and no started task is waiting
Quiescent == InFlight = {} /\ bgq = <<>>

\* C12: when bank transfer was selected and then payment confirmed on a
\* pending order, and both calls have returned, the order is placed, its
\* payment status is confirmed, its confirmation timestamp is set and the
\* pending_order cache of the sender does not hold it.
C12_BankThenConfirmPlaces ==
    Quiescent =>
        \A id \in DOMAIN paid :
            paid[id] = <<"show_bank_transfer_details", "confirm_payment">> =>
                /\ orders[id].status = "placed"
                /\ orders[id].payment_status = "confirmed"
                /\ orders[id].payment_confirmed_at # NoTime
                /\ ~(/\ PendingKey(orders[id].wa_id) \in DOMAIN cache
                     /\ cache[PendingKey(orders[id].wa_id)].value.id = id)

\* the step in which show_bank_transfer_details of call p records the method
MethodStep(p) == procs[p].pc = "bank_send" /\ procs'[p].pc = "sending"

\* C13: recording the payment method on an order stored as pending_payment
\* leaves it pending_payment with the method recorded, payment status
\* pending and no confirmation timestamp; an order goes from
\* pending_payment to placed only in a payment confirmation.
C13_MethodKeepsPending ==
    [][/\ \A p \in Procs :
             (MethodStep(p) /\ orders[procs[p].order.id].status = "pending_payment") =>
                LET row == orders'[procs[p].order.id] IN
                /\ row.payment_method = "bank_transfer"
                /\ row.status = "pending_payment"
                /\ row.payment_status = "pending"
                /\ row.payment_confirmed_at = NoTime
       /\ \A i \in 1..Len(orders) :
             (orders[i].status = "pending_payment" /\ orders'[i].status = "placed") =>
                /\ i \in DOMAIN paid'
                /\ paid' # paid
                /\ paid'[i][Len(paid'[i])] = "confirm_payment"
                /\ orders'[i].payment_status = "confirmed"]_vars

\* an order has its method recorded and is still pending, and a confirmation
\* has placed another
C13_Witness ==
    /\ \E i \in 1..Len(orders) :
          /\ orders[i].payment_method = "bank_transfer"
          /\ orders[i].status = "pending_payment"
          /\ orders[i].payment_status = "pending"
          /\ orders[i].payment_confirmed_at = NoTime
    /\ \E i \in DOMAIN paid :
          /\ paid[i] = <<"confirm_payment">>
          /\ orders[i].status = "placed"

\* C14: every sender has at most one order in status pending_payment.
C14_OnePendingPerSender ==
    \A s \in Senders : Cardinality(PendingRows(orders, s)) <= 1

\* C14 as amended: a sender may have several orders stored as
\* pending_payment, and at most one of them is its pending order for the
\* core: a live pending_order entry of a sender holds one order, of that
\* sender, whose stored status is pending_payment.
C14_OnePendingInUse ==
    \A s \in Senders :
        CacheLive(cache, PendingKey(s), now) =>
            LET v == cache[PendingKey(s)].value IN
            /\ v.wa_id = s
            /\ v.id \in 1..Len(orders)
            /\ orders[v.id].wa_id = s
            /\ orders[v.id].status = "pending_payment"

\* two orders of a sender are stored as pending_payment while its
\* pending_order entry is live
C14_Witness ==
    \E s \in Senders :
        /\ Cardinality(PendingRows(orders, s)) = 2
        /\ CacheLive(cache, PendingKey(s), now)

\* C15: get_pending_order(sender) returns the most recently created order of
\* the sender stored as pending_payment, as stored, or nothing when there is
\* none, from the cache as from the store.
C15_PendingIsNewest ==
    \A s \in Senders :
        LET got == GetPendingOrder(cache, orders, s, now).order IN
        IF \E i \in 1..Len(orders) : orders[i].wa_id = s /\ orders[i].status = "pending_payment"
        THEN /\ got.id \in 1..Len(orders)
             /\ got = orders[got.id]
             /\ got.wa_id = s
             /\ got.status = "pending_payment"
             /\ \A j \in 1..Len(orders) :
                   (orders[j].wa_id = s /\ orders[j].status = "pending_payment")
                      => j <= got.id
        ELSE got = NoOrder

\* two orders are pending, the cache has no entry, and the read from the
\* store yields the newer one
C15_Witness ==
    /\ PendingRows(orders, "s1") = {1, 2}
    /\ PendingKey("s1") \notin DOMAIN cache
    /\ GetPendingOrder(cache, orders, "s1", now).order.id = 2

\* C16: a step that creates an order leaves every order that existed
\* unchanged; an earlier pending order stays pending_payment.
C16_CreationKeepsEarlierOrders ==
    [][Len(orders') > Len(orders) =>
          \A i \in 1..Len(orders) : orders'[i] = orders[i]]_vars

\* a second order was created while the first was pending with its method
\* recorded, and the first is as it was
C16_Witness ==
    /\ Len(orders) = 2
    /\ orders[1].status = "pending_payment"
    /\ orders[1].payment_method = "bank_transfer"
    /\ orders[2].status = "pending_payment"
    /\ orders[2].created_at >= orders[1].created_at
    /\ paid = <<<<"show_bank_transfer_details">>>>

\* the cache keys that hold copies of order records
OrderKeys == {PendingKey(s) : s \in Senders} \cup {HistoryKey(s) : s \in Senders}

\* C17: a step that writes the orders table stores or updates no value
\* under an order cache key: it only deletes such keys.
C17_WritesOnlyInvalidate ==
    [][orders' # orders =>
          \A k \in OrderKeys \cap DOMAIN cache' :
              k \in DOMAIN cache /\ cache'[k] = cache[k]]_vars

\* C18: at every state get_order_history of a sender yields the sender's
\* orders as stored: a live order_history entry is never older than the
\* sender's latest completed order write.
C18_HistoryReflectsWrites ==
    \A s \in Senders :
        /\ GetOrderHistory(cache, orders, s, now).listing = HistoryRows(orders, s)
        /\ CacheLive(cache, HistoryKey(s), now) =>
              cache[HistoryKey(s)].value = HistoryRows(orders, s)

\* the history was looked at twice, a payment confirmation came in between
\* at the latest, and the live entry lists the order as placed
C18_Witness ==
    /\ HistoryKey("s1") \in DOMAIN cache
    /\ CacheLive(cache, HistoryKey("s1"), now)
    /\ Len(cache[HistoryKey("s1")].value) = 1
    /\ cache[HistoryKey("s1")].value[1].status = "placed"
    /\ {ExtractId(HistoryText, now), ExtractId(HistoryButton, now)} \subseteq DOMAIN handled

\* C19: a get of a key whose last set (value v, ttl T at time t0) was not
\* deleted or cleared returns v at every time before t0 + T and reports
\* absent at and after t0 + T, and then the entry is gone.
C19_TtlExpiry ==
    (cacheOp.op = "get" /\ cacheOp.key \in DOMAIN written) =>
        LET w == written[cacheOp.key] IN
        /\ cacheOp.at < w.at + w.ttl => cacheOp.ret = w.value
        /\ cacheOp.at >= w.at + w.ttl =>
              /\ cacheOp.ret = "None"
              /\ cacheOp.key \notin DOMAIN cache

\* a get exactly at the expiry time of a 60 s entry that an earlier get had
\* served
C19_Witness ==
    /\ cacheOp.op = "get"
    /\ cacheOp.prev = "get"
    /\ cacheOp.prevKey = cacheOp.key
    /\ cacheOp.key \in DOMAIN written
    /\ written[cacheOp.key].ttl = MINUTE
    /\ cacheOp.at = written[cacheOp.key].at + MINUTE
    /\ cacheOp.ret = "None"

\* C20: a get of a key deleted or cleared and not set since reports absent;
\* delete(key) leaves the entries of all other keys as they were, whether
\* or not the key was present; after clear() no key has an entry.
C20_DeleteAndClear ==
    /\ []((cacheOp.op = "get" /\ cacheOp.key \notin DOMAIN written) => cacheOp.ret = "None")
    /\ [][(deliveries' # deliveries /\ cacheOp'.op = "delete") =>
             /\ cacheOp'.key \notin DOMAIN cache'
             /\ \A k \in CacheKeys \ {cacheOp'.key} :
                   /\ (k \in DOMAIN cache') = (k \in DOMAIN cache)
                   /\ k \in DOMAIN cache => cache'[k] = cache[k]]_vars
    /\ [][(deliveries' # deliveries /\ cacheOp'.op = "clear") => DOMAIN cache' = {}]_vars

\* a key was deleted while live and its get reports absent, the other key's
\* entry being still live
C20_Witness ==
    /\ cacheOp.op = "get"
    /\ cacheOp.prev = "delete"
    /\ cacheOp.prevKey = cacheOp.key
    /\ cacheOp.ret = "None"
    /\ \E k \in CacheKeys \ {cacheOp.key} : CacheLive(cache, k, now)

\* C21: the router never propagates an unhandled failure: whichever store or
\* transport call fails (dedup check, blocked check, rate-limited notice,
\* profile upsert, dispatch), the webhook call returns an acknowledgment,
\* never an HTTP 500.
C21_AlwaysAcknowledged ==
    response.pc = "done" => response.status # "500"

\* C22: a failure of the handler of an admitted event is caught at the
\* router boundary: the call returns HTTP 200, with status ok when the
\* handler completed and status error when it failed.
C22_HandlerFailureIs200 ==
    /\ response.pc = "done" /\ HasStep(response.trail, "dispatch", "pass")
          => response.status \in {"ok", "error"}
    /\ response.pc = "done" /\ response.status = "ok" => "screen" \in response.sent

C22_Witness ==
    /\ response.pc = "done"
    /\ HasStep(response.trail, "dispatch", "pass")
    /\ response.status = "error"
    /\ faults > 0

\* the event a call was started for
PayloadOf(c) == CHOOSE pl \in env.payloads : ExtractId(pl, 0) = c.id

UnknownButton(pl) == pl.kind = "button" /\ pl.arg \notin ButtonIds
UnknownItem(pl) == pl.kind = "list" /\ pl.arg \notin ItemIds

Dispatched == {c \in Calls : HasStep(c.trail, "dispatch", "pass")}

\* C23 (as stated): for button and for list selections alike, an id that is
\* not in the id-to-action table is routed to the home screen and raises
\* no error.
C23_UnknownSelectionHome ==
    \A c \in Dispatched :
        UnknownButton(PayloadOf(c)) \/ UnknownItem(PayloadOf(c))
            => /\ c.action = "show_home"
               /\ faults = 0 => c.status \notin {"error", "500"}

\* C23 (amended): an unknown button id is routed to the home screen; an
\* unknown list id is routed to the order list (after a notice that the
\* item was not recognised), not to the home screen; neither raises an
\* error.
C23_UnknownSelectionFallback ==
    \A c \in Dispatched :
        /\ UnknownButton(PayloadOf(c)) => c.action = "show_home"
        /\ UnknownItem(PayloadOf(c)) => c.action = "show_order_list"
        /\ UnknownButton(PayloadOf(c)) \/ UnknownItem(PayloadOf(c))
              => (faults = 0 => c.status \notin {"error", "500"})

C23_Witness ==
    /\ response.pc = "done" /\ response.status = "ok"
    /\ UnknownItem(PayloadOf(response))
    /\ response.action = "show_order_list"
    /\ \E p \in Procs : /\ procs[p].pc = "sending"
                         /\ UnknownButton(PayloadOf(procs[p]))
                         /\ procs[p].action = "show_home"

\* C24: for a text event the trimmed, lower-cased body triggers exactly one
\* action: that of the single keyword group holding it, or the home screen
\* when no group holds it.  The normalised body is the body without its
\* leading and trailing whitespace and with its capitals lowered; no two
\* keyword groups share a keyword.
C24_TextTriggersOneAction ==
    /\ \A g, h \in DOMAIN text_handlers :
          g # h => text_handlers[g].keywords \cap text_handlers[h].keywords = {}
    /\ \A c \in Dispatched :
          PayloadOf(c).kind = "text" =>
            LET raw == PayloadOf(c).text
                body == Normalize(raw)
                G == {g \in DOMAIN text_handlers : body \in text_handlers[g].keywords}
            IN /\ \A i \in DOMAIN body : \A u \in DOMAIN UpperCase : body[i] # UpperCase[u]
               /\ body # <<>> => body[1] \notin Whitespace /\ body[Len(body)] \notin Whitespace
               /\ \E k \in 0..Len(raw) :
                     /\ k + Len(body) <= Len(raw)
                     /\ \A i \in DOMAIN raw :
                           IF i > k /\ i <= k + Len(body)
                           THEN Lower(raw[i]) = body[i - k]
                           ELSE raw[i] \in Whitespace
               /\ Cardinality(G) <= 1
               /\ G = {} => c.action = "show_home"
               /\ \A g \in G : c.action = text_handlers[g].action

C24_Witness ==
    /\ response.pc = "done" /\ response.status = "ok"
    /\ PayloadOf(response).kind = "text"
    /\ PayloadOf(response).text # Normalize(PayloadOf(response).text)
    /\ response.action = "show_store"
    /\ \E p \in Procs : /\ procs[p].pc = "sending"
                         /\ PayloadOf(procs[p]).kind = "text"
                         /\ Normalize(PayloadOf(procs[p]).text)
                               = <<"h", "i", " ", "s", "t", "o", "r", "e">>
                         /\ procs[p].action = "show_home"

\* C25: an event from a blocked sender is rejected silently: no message is
\* sent, no handler runs, no order is created or changed, and the webhook
\* call returns an acknowledgment.
C25_BlockedRejectedSilently ==
    \A c \in Calls :
        users[c.wa_id].is_blocked
            => /\ c.sent = {}
               /\ c.action = "-"
               /\ ~HasStep(c.trail, "dispatch", "pass")
               /\ c.pc \in {"done"}
               /\ orders = <<>>
               /\ c.status \in {"blocked", "duplicate"}

\* the step in which a call is denied by the rate limiter and suspends on
\* the send of the notice, and the step in which that send returns
RateDenied(p) == procs[p].pc = "idle" /\ procs'[p].pc = "notice"
NoticeReturns(p) == procs[p].pc = "notice" /\ procs'[p].pc = "idle"

SameEntry(c, d, k) ==
    /\ (k \in DOMAIN c) = (k \in DOMAIN d)
    /\ k \in DOMAIN c => c[k] = d[k]

\* C26: an event denied by the rate limiter has the rate-limited notice
\* sent and nothing else done for it: no handler runs, no user record is
\* created or touched, no order changes and no further message is sent.
C26_RateLimitedOnlyNotice ==
    [][\A p \in Procs :
          /\ RateDenied(p) =>
                /\ HasStep(procs'[p].trail, "rate", "reject")
                /\ procs'[p].action = "-" /\ procs'[p].sent = {}
                /\ handled' = handled
                /\ users' = users /\ orders' = orders
                /\ SameEntry(cache, cache', UserKey(procs'[p].wa_id))
                /\ \A i \in DOMAIN bgq' : bgq'[i].task # "update_activity"
          /\ NoticeReturns(p) =>
                /\ response'.action = "-"
                /\ handled' = handled
                /\ users' = users /\ orders' = orders /\ cache' = cache
                /\ \A i \in DOMAIN bgq' : bgq'[i].task # "update_activity"
                /\ response'.sent \subseteq {"rate_limited_notice"}
                /\ response'.status = "rate_limited"
                      => response'.sent = {"rate_limited_notice"}]_vars

C26_Witness ==
    /\ response.pc = "done" /\ response.status = "rate_limited"
    /\ response.sent = {"rate_limited_notice"}
    /\ users[response.wa_id].rows = 0
    /\ bgq = <<>>

\* C27: the failure of a detached background write (activity touch, dedup
\* log append, rate-limit mirror, message log) is swallowed: the task ends,
\* is not started again, writes nothing, and changes neither a response
\* nor a call in flight nor the in-memory admission state.
C27_BackgroundFailureSwallowed ==
    [][bgq # <<>> =>
          /\ bgq' = Tail(bgq)
          /\ response' = response /\ procs' = procs
          /\ cache' = cache /\ rate_limits' = rate_limits /\ last_cleanup' = last_cleanup
          /\ faults' # faults =>
                /\ processed_messages' = processed_messages
                /\ users' = users
                /\ rate_limits_db' = rate_limits_db
                /\ message_logs' = message_logs]_vars

C27_Witness ==
    /\ faults = BackgroundFaults
    /\ bgq = <<>>
    /\ response.pc = "done" /\ response.status = "ok"
    /\ processed_messages = {}
    /\ message_logs # {}

\* the stored windows that are current: the present time lies in them
Current(s) == s \in DOMAIN rate_limits /\ now - rate_limits[s].window < MINUTE

\* C28: each sender has one stored rate window, whose start is a whole-minute
\* truncation of the time of a check; two senders whose windows are current
\* have the same window start; a sender's window start never decreases.
C28_WindowsAligned ==
    /\ [](\A s \in DOMAIN rate_limits :
            /\ rate_limits[s].window % MINUTE = 0
            /\ rate_limits[s].window <= now
            /\ rate_limits[s].count >= 1
            /\ \A r \in DOMAIN rate_limits :
                  Current(s) /\ Current(r) => rate_limits[s].window = rate_limits[r].window)
    /\ [][\A s \in DOMAIN rate_limits \cap DOMAIN rate_limits' :
            rate_limits'[s].window >= rate_limits[s].window]_vars

C28_Witness ==
    /\ Current("s1") /\ Current("s2")
    /\ rate_limits["s1"].window = MINUTE
    /\ now > MINUTE
    /\ [wa_id |-> "s1", window_start |-> 0, request_count |-> 1] \in rate_limits_db

\* C29: the sweep runs on every check_rate_limit call made more than 3600
\* seconds after the previous sweep, however long the gap, and after it no
\* stored window older than one hour before the current minute remains.
C29_SweepWhenDue ==
    [][deliveries' # deliveries /\ now - last_cleanup > CLEANUP_INTERVAL
          => /\ last_cleanup' = now
             /\ \A s \in DOMAIN rate_limits' :
                   rate_limits'[s].window >= WindowStart(now) - CLEANUP_HORIZON]_vars

\* C30: whenever a sender's window is created or superseded, an upsert of
\* that window to the durable store is started as a background task.
C30_WindowChangeIsMirrored ==
    [][\A s \in DOMAIN rate_limits' :
          s \notin DOMAIN rate_limits \/ rate_limits[s].window # rate_limits'[s].window
            => \E i \in DOMAIN bgq' :
                  bgq'[i] = SyncToDbTask(s, rate_limits'[s].window, 1)]_vars

\* C31: for a configured limit N >= 1 each stored per-sender count is between
\* 1 and N; a check returns remaining = N minus the count stored after the
\* call (0..N-1 when allowed, 0 when denied); a denied check leaves the
\* sender's stored (count, window) unchanged.
C31_CountWithinLimit ==
    /\ [](/\ \A s \in DOMAIN rate_limits :
               rate_limits[s].count >= 1 /\ rate_limits[s].count <= config.RATE_LIMIT_REQUESTS
          /\ lastCheck.wa_id # "-" =>
               /\ lastCheck.remaining = config.RATE_LIMIT_REQUESTS - lastCheck.count
               /\ lastCheck.allowed =>
                     lastCheck.remaining >= 0
                     /\ lastCheck.remaining <= config.RATE_LIMIT_REQUESTS - 1
               /\ ~lastCheck.allowed => lastCheck.remaining = 0)
    /\ [][deliveries' # deliveries /\ ~lastCheck'.allowed
            => /\ lastCheck'.wa_id \in DOMAIN rate_limits
               /\ rate_limits'[lastCheck'.wa_id] = rate_limits[lastCheck'.wa_id]]_vars

C31_Witness ==
    /\ config.RATE_LIMIT_REQUESTS = 2
    /\ lastCheck.wa_id = "s1" /\ ~lastCheck.allowed /\ lastCheck.at = now
    /\ rate_limits["s1"] = [count |-> 2, window |-> MINUTE]

\* C32: check_rate_limit for sender A never changes the count or the window
\* start of another sender B whose stored window is the current one, also
\* on calls on which the hourly sweep runs.
C32_OtherSenderUntouched ==
    [][deliveries' # deliveries
          => \A b \in Senders \ {lastCheck'.wa_id} :
                Current(b) => /\ b \in DOMAIN rate_limits'
                              /\ rate_limits'[b] = rate_limits[b]]_vars

C32_Witness ==
    /\ lastCheck.wa_id = "s1" /\ lastCheck.at = now
    /\ last_cleanup = now /\ now > CLEANUP_INTERVAL
    /\ Current("s2")
    /\ allowedW["s2"].at < now

\* the step in which a delivery is answered at once with the given status
Answered(status) ==
    /\ deliveries' # deliveries
    /\ procs' = procs
    /\ response'.pc = "done" /\ response'.status = status

\* C33: a delivery rejected as duplicate or as coming from a blocked sender
\* leaves the rate windows (count and window start) unchanged: it consumes
\* none of the sender's rate budget.
C33_RejectedConsumesNoBudget ==
    [][Answered("duplicate") \/ Answered("blocked")
          => rate_limits' = rate_limits /\ last_cleanup' = last_cleanup]_vars

C33_Witness ==
    /\ response.pc = "done" /\ response.status = "blocked" /\ response.wa_id = "s2"
    /\ "s2" \notin DOMAIN rate_limits
    /\ "s1" \in DOMAIN rate_limits /\ rate_limits["s1"].count = 1
    /\ \E m \in DOMAIN handled : handled[m] = 1
    /\ deliveries = 3

\* C34: a message id is marked processed before the blocked check, the
\* rate-limit check and the handler, so a redelivery of the event of a
\* blocked sender, whose id was marked on an earlier delivery, is always
\* answered duplicate.
C34_RedeliveryIsDuplicate ==
    \A c \in Calls :
        c.sawMarked /\ users[c.wa_id].is_blocked
            => c.pc = "done" /\ c.status = "duplicate"

\* C35: extract_message derives the same message id on every delivery of a
\* payload (the id depends on the payload only), so a catalogue-order
\* payload that is delivered again does not create a second order.
C35_IdFromPayloadOnly ==
    /\ \A c, d \in Calls : c.id[2] = d.id[2] => c.id = d.id
    /\ \A i, j \in DOMAIN orders : i # j => orders[i].items # orders[j].items

\* the payment method was recorded on order k after its bank-transfer
\* details were sent, and the order still awaits its confirmation
MethodRecorded(k) ==
    orders[k].payment_method = "bank_transfer" /\ orders[k].status = "pending_payment"

\* C36: the order that a confirm-payment event moves to placed is the order
\* whose bank-transfer details were most recently shown to the sender and
\* on which the payment method was recorded: while such an order of the
\* sender awaits confirmation, no order without a recorded method is placed.
C36_ConfirmsTheShownOrder ==
    [][\A k \in DOMAIN orders :
          /\ orders[k].status # "placed" /\ orders'[k].status = "placed"
          /\ \E j \in DOMAIN orders : orders[j].wa_id = orders[k].wa_id /\ MethodRecorded(j)
          => MethodRecorded(k)]_vars

\* confirm-payment scenario: one sender creates orders and presses Confirm
\* Payment twice (two button events with their own message ids)
ConfirmDeliveries == 4
ConfirmTicks == 1

ConfirmAgain == Payload("m12", "s1", "messages", "button", "BTN_CONFIRM_PAYMENT", <<>>)

InitConfirm ==
    /\ InitStore
    /\ InitUsers(FALSE)
    /\ config = DefaultConfig
    /\ env = Scenario({CatalogueOrder, ListOrder, ConfirmButton, ConfirmAgain},
                      ConfirmDeliveries, ConfirmTicks, {PENDING_ORDER_TTL}, 0)

NextConfirm ==
    \/ \E p \in Procs, pl \in env.payloads : Deliver(p, pl, "none")
    \/ \E p \in Procs : Finish(p, TRUE)
    \/ BgRun(TRUE)
    \/ \E d \in env.steps : Tick(d)

SpecConfirm == InitConfirm /\ [][NextConfirm]_vars

\* C37: confirm payment is idempotent per sender: after a confirm-payment
\* event has placed the sender's newest order, so that no order was created
\* since, a further confirm-payment event from that sender changes no order.
C37_ConfirmIsIdempotent ==
    [][\A k \in DOMAIN orders :
          orders[k].status # "placed" /\ orders'[k].status = "placed"
            => ~(/\ orders[Len(orders)].status = "placed"
                 /\ orders[Len(orders)].wa_id = orders[k].wa_id)]_vars

\* C38: the cache and the store agree on the pending order: whenever the
\* cache holds a live pending_order entry for a sender, the store holds an
\* order with the cached id, for that sender, in status pending_payment,
\* whatever the interleaving of creations, method selections and
\* confirmations.
C38_CachedPendingIsStored ==
    \A s \in Senders :
        CacheLive(cache, PendingKey(s), now) =>
            \E k \in DOMAIN orders :
                /\ k = cache[PendingKey(s)].value.id
                /\ orders[k].wa_id = s
                /\ orders[k].status = "pending_payment"

\* a sender's order is cached as pending after an earlier order of the sender
\* had its method selected and its payment confirmed
C38_Witness ==
    \E s \in Senders, j \in DOMAIN orders :
        /\ CacheLive(cache, PendingKey(s), now)
        /\ orders[j].wa_id = s
        /\ orders[j].status = "placed"
        /\ orders[j].payment_method = "bank_transfer"
        /\ cache[PendingKey(s)].value.id # j

\* C39: after any interleaving of the inbound events handled by the process
\* the store holds at most one user row per sender id: concurrent first
\* events of a sender never both insert a user.
C39_OneUserPerSender ==
    \A s \in Senders : users[s].rows <= 1

\* two events of a sender unknown at the start are in flight together, both
\* past get_or_create_user, and the sender has its one row
C39_Witness ==
    /\ \A p \in Procs : procs[p].pc = "sending" /\ procs[p].wa_id = "s1"
    /\ procs["p1"].id # procs["p2"].id
    /\ users["s1"].rows = 1

====
